---- MODULE Spec2Model ----
(***************************************************************************)
(* Tactical-voting analysts (BTVA, ATVA1, ATVA2) of the repository, as a   *)
(* state machine.  One behaviour is one call of analyze: Init draws the    *)
(* analyst, its configuration and the caller's preference matrix; each     *)
(* action is one step of the Python code (one loop iteration, one call).   *)
(*                                                                         *)
(* Encoding.  Candidates "A","B","C" are the integers 1,2,3, so that the   *)
(* identifier order of np.unique is the integer order.  A ranking (one     *)
(* column of the matrix) is a sequence, position 1 = row 0 = most          *)
(* preferred.  A matrix is a function from the voter index (0-based, as in *)
(* the code) to that voter's column.  Python lists are sequences, so list  *)
(* index k is sequence position k+1.                                        *)
(*                                                                         *)
(* Matrices are numpy arrays, i.e. mutable objects reached by reference.   *)
(* heap maps each array object of a call to its contents; variables such   *)
(* as mod_ref hold references, .copy() fills a fresh object, and a column  *)
(* assignment writes through the reference.                                *)
(***************************************************************************)
EXTENDS Integers, Sequences, FiniteSets, TLC

\* Number of voters n (columns of the matrix).
NumVoters == 3

\* Largest maxCollusionSize an ATVA1 is constructed with.
MaxCollusion == 2

Candidates == 1 .. 3

Voters == 0 .. (NumVoters - 1)

m == Cardinality(Candidates)

\* Python's None, where the other values are strings.  An Optional[int] or
\* Optional[list] is <<>> for None and <<x>> for the value x.
None == "None"

VARIABLES
    analyze_calls,      \* calls of analyze made on the analyst object so far
    sim_params,         \* ATVA3.analyze: the sim_params argument
    attempt,            \* ATVA3.analyze: attempt
    reconstruct_preference,  \* ATVA3.analyze: what preference_reconstruct returned
    reconstruct_calls,  \* number of calls of preference_reconstruct so far
    leaderboard,        \* preference_reconstruct: candidates by true score
    best_preference,
    best_score,
    current_preference,
    current_score,
    acceptance_window,
    stability_counter,
    phase,
    step,               \* index of the running for loop
    visited_score,      \* highest score of a matrix the chain has been at
    proposals,          \* proposals (new_preference) the call has made so far
    outcome_values,     \* outcome as the voting scheme returned it
    outcome_keys,       \* list(outcome.keys()) after the sort
    analyst,            \* which class's analyze is running
    voting_scheme,      \* the voting_scheme argument
    happiness_measure,  \* self.happiness_measure
    risk_measure,       \* self.risk_measure
    given,              \* the caller's matrix as it was when analyze was called
    heap,               \* array object -> contents
    pc,                 \* position in the code
    error,              \* the exception that ended the call, or None
    individual_happiness,
    all_options,
    i,
    oi,
    mod_ref,
    options,
    strategic_options,
    risk,
    maxCollusionSize,
    exhaustiveSearch,
    strategyGenerator,  \* self.strategyGenerator
    collusion_permutations,
    counter,
    strategic_options_indices,
    collusion_options,
    evaluated,          \* joint assignments evaluated for the current coalition
    finished,           \* per coalition left behind: what was evaluated, how it ended
    param_ref,          \* _single_step_analyse: the voter_preference argument
    excluded_voter,
    excluded_voter_preference,
    excluded_voter_original_hapiness,
    is_countered,
    last,               \* the last alternative ranking tried, and what became of it
    top,                \* analyze (ATVA2): the results of step 1
    fm,                 \* analyze (ATVA2): the loop variable i of step 2
    strategic_option,   \* analyze (ATVA2): the first move being examined
    todo,               \* analyze (ATVA2): first moves of voter fm not yet examined
    counter_voting_risks,
    individual_risks,   \* a risk measure: the risks of the voters gone through so far
    count,              \* probStrategicVoting: count
    w_preferences,      \* a happiness measure called on its own: preferences
    w_outcome,          \* ... outcome
    w_preferenceWeights,  \* ... preferenceWeights, <<>> for None, else <<list>>
    w_distanceWeights,  \* ... distanceWeights, likewise
    weights,            \* ... the locals preferenceWeights and distanceWeights
    result,             \* ... the value returned, a rational
    g_input,            \* createNDistinctPermutations: the input argument
    g_maxN,             \* createNDistinctPermutations: the maxN argument
    permuteRange,       \* <<>> for None, else <<start, stop>>
    left,
    middle,
    right,
    uniqueMiddles,
    countAttempts,
    successiveFailedAttempts,
    permu               \* the entries of the returned list

\* createNDistinctPermutations: arguments and locals
genvars == <<g_input, g_maxN, permuteRange, left, middle, right, uniqueMiddles,
             countAttempts, successiveFailedAttempts, permu>>

\* The arguments of an analyst's call.
callvars == <<analyst, voting_scheme, happiness_measure, risk_measure, given,
              maxCollusionSize, exhaustiveSearch, strategyGenerator>>

\* What analyze of BTVA, ATVA1 and ATVA2 never writes: its arguments, and
\* the variables of the other functions.
outvars == <<outcome_values, outcome_keys>>
chainvars == <<leaderboard, best_preference, best_score, current_preference,
               current_score, acceptance_window, stability_counter, phase, step,
               visited_score, proposals>>
a3vars == <<sim_params, attempt, reconstruct_preference, reconstruct_calls, chainvars>>
\* Locals of the measures when they are called on their own.
measurevars == <<individual_risks, count, w_preferences, w_outcome, w_preferenceWeights,
                 w_distanceWeights, weights, result>>
cfgvars == <<callvars, genvars, outvars, a3vars, analyze_calls, measurevars>>

a1vars == <<collusion_permutations, counter, strategic_options_indices,
            collusion_options, evaluated, finished>>

a2vars == <<param_ref, excluded_voter, excluded_voter_preference,
            excluded_voter_original_hapiness, is_countered, last, top, fm,
            strategic_option, todo, counter_voting_risks>>

loopvars == <<individual_happiness, all_options, i, oi, mod_ref, options,
              strategic_options, risk>>

vars == <<cfgvars, heap, pc, error, loopvars, a1vars, a2vars>>

----------------------------------------------------------------------------
(* Sequences and rankings *)

Range(s) == {s[k] : k \in DOMAIN s}

\* f[1] + ... + f[k]
RECURSIVE SumTo(_, _)
SumTo(f, k) == IF k = 0 THEN 0 ELSE f[k] + SumTo(f, k - 1)

RemoveAt(s, k) == [j \in 1 .. (Len(s) - 1) |-> IF j < k THEN s[j] ELSE s[j + 1]]

RECURSIVE Flatten(_)
Flatten(ss) == IF Len(ss) = 0 THEN <<>> ELSE Head(ss) \o Flatten(Tail(ss))

\* itertools.permutations: tuples in lexicographic order of input positions.
RECURSIVE permutations(_)
permutations(input) ==
    IF Len(input) = 0 THEN << <<>> >>
    ELSE Flatten([k \in 1 .. Len(input) |->
             LET rest == permutations(RemoveAt(input, k))
             IN  [j \in 1 .. Len(rest) |-> <<input[k]>> \o rest[j]]])

\* Every result shuffle can leave in the list: its entries in any order of
\* their positions.
Arrangements(s) ==
    {[k \in 1 .. Len(s) |-> s[f[k]]] :
        f \in {g \in [1 .. Len(s) -> 1 .. Len(s)] :
                  \A a, b \in 1 .. Len(s) : g[a] = g[b] => a = b}}

\* Every ranking: a sequence holding each candidate once.
Rankings ==
    {r \in [1 .. m -> Candidates] : \A a, b \in 1 .. m : a # b => r[a] # r[b]}

RECURSIVE Factorial(_)
Factorial(k) == IF k <= 1 THEN 1 ELSE k * Factorial(k - 1)

\* list.index
IndexOf(s, x) == CHOOSE k \in DOMAIN s : s[k] = x /\ \A j \in 1 .. (k - 1) : s[j] # x

Abs(x) == IF x < 0 THEN 0 - x ELSE x

----------------------------------------------------------------------------
(* Voting schemes: candidate -> score *)

\* np.unique(voter_preference): the candidates standing anywhere in the matrix.
Unique(pref) == {pref[v][k] : v \in DOMAIN pref, k \in 1 .. m}

plurality_voting(pref) ==
    [c \in Unique(pref) |-> Cardinality({v \in DOMAIN pref : pref[v][1] = c})]

\* m-1-rank points for every cell of row rank (from 0) that holds c.
borda_count_voting(pref) ==
    [c \in Unique(pref) |->
        SumTo([k \in 1 .. m |->
                  (m - k) * Cardinality({v \in DOMAIN pref : pref[v][k] = c})],
              m)]

\* One point for every row but the last.
anti_plurality_voting(pref) ==
    [c \in Unique(pref) |->
        Cardinality({x \in (1 .. (m - 1)) \X DOMAIN pref : pref[x[2]][x[1]] = c})]

\* The schemes analyze is called with here (borda_count_voting is left to
\* callers that name it).
VotingSchemes == {"plurality_voting", "anti_plurality_voting"}

CallVotingScheme(scheme, pref) ==
    CASE scheme = "plurality_voting" -> plurality_voting(pref)
      [] scheme = "borda_count_voting" -> borda_count_voting(pref)
      [] scheme = "anti_plurality_voting" -> anti_plurality_voting(pref)

\* A sort that puts the later of two candidates with equal scores first.
SortedTiesDescending(scores) ==
    LET Before(d, c) == scores[d] > scores[c] \/ (scores[d] = scores[c] /\ d > c)
        Place(c) == 1 + Cardinality({d \in DOMAIN scores : Before(d, c)})
    IN  [p \in 1 .. Cardinality(DOMAIN scores) |->
            CHOOSE c \in DOMAIN scores : Place(c) = p]

\* sorted(outcome.items(), key=value, reverse=True), then list(keys): a stable
\* sort of the dict, whose insertion order is that of np.unique (ascending).
SortedOutcome(scores) ==
    LET Before(d, c) == scores[d] > scores[c] \/ (scores[d] = scores[c] /\ d < c)
        Place(c) == 1 + Cardinality({d \in DOMAIN scores : Before(d, c)})
    IN  [p \in 1 .. Cardinality(DOMAIN scores) |->
            CHOOSE c \in DOMAIN scores : Place(c) = p]

\* The ranked outcome of matrix pref.  (The scores are bound by a quantifier
\* so that they are computed once.)
Outcome(scheme, pref) ==
    CHOOSE ranked \in {SortedOutcome(s) : s \in {CallVotingScheme(scheme, pref)}} : TRUE

----------------------------------------------------------------------------
(* Happiness measures.  Values are integers: KendallTau is scaled by m,    *)
(* NDCG is the dcg in units of 1/10000.                                    *)

\* KendallTau with default weights: concordantPairs counts the positions at
\* which preference and outcome agree, tau = (2c - m)/m, result (tau+1)/2 =
\* c/m.  The model returns c = m * result, which orders results as the
\* floating-point value does.
KendallTau(preferences, outcome) ==
    Cardinality({k \in 1 .. Len(preferences) : preferences[k] = outcome[k]})

\* get_happiness with its default weights (top-1 binary).
get_happiness(voter_preference, voting_outcome) ==
    LET n == Len(voter_preference)
        preference_weights == [k \in 1 .. n |-> IF k = 1 THEN 1 ELSE 0]
        distance_weights == [k \in 1 .. n |-> IF k = 1 THEN 1 ELSE 0]
        distance(k) == Abs(k - IndexOf(voting_outcome, voter_preference[k]))
    IN  SumTo([k \in 1 .. n |-> preference_weights[k] * distance_weights[distance(k) + 1]],
              n)

\* createRanking: the relevance of each preference, from how far up the
\* outcome it stands.  distanceWeights[distance - 1] is the last weight when
\* distance = 0 (Python index -1).
createRanking(preferences, outcome, preferenceWeights, distanceWeights) ==
    LET NonZeroWeightsCount ==
            Cardinality({k \in DOMAIN preferenceWeights : preferenceWeights[k] > 0})
        distance(k) ==
            LET d == NonZeroWeightsCount - (IndexOf(outcome, preferences[k]) - 1)
            IN  IF d > 0 THEN d ELSE 0
        weight(d) == distanceWeights[IF d = 0 THEN Len(distanceWeights) ELSE d]
    IN  [k \in 1 .. Len(preferences) |->
            distance(k) * preferenceWeights[k] * weight(distance(k))]

\* 10000 / log2(k + 1), rounded, for list index k - 1.
InvLog2 == <<10000, 6309, 5000, 4307, 3869>>

\* DCG, in units of 1/10000.
DCG(ranking) == SumTo([k \in 1 .. Len(ranking) |-> ranking[k] * InvLog2[k]], Len(ranking))

\* NDCG with default weights: ceil(m/2) ones then zeros, and all ones.  The
\* ideal ranking compares the outcome with itself, so idcg is the same
\* positive number in every call for the same m; the model returns
\* dcg, which orders results as dcg / idcg does (for m <= 4 two different
\* dcg values differ by more than the rounding of InvLog2).
NDCG(preferences, outcome) ==
    LET n == Len(preferences)
        preferenceWeights ==
            [k \in 1 .. n |-> IF k <= (n + 1) \div 2 THEN 1 ELSE 0]
        distanceWeights == [k \in 1 .. n |-> 1]
    IN  DCG(createRanking(preferences, outcome, preferenceWeights, distanceWeights))

HappinessMeasures == {"KendallTau", "get_happiness", "NDCG"}

CallHappiness(measure, preferences, outcome) ==
    CASE measure = "KendallTau" -> KendallTau(preferences, outcome)
      [] measure = "get_happiness" -> get_happiness(preferences, outcome)
      [] measure = "NDCG" -> NDCG(preferences, outcome)

\* The exception a measure raises, or None: KendallTau reads outcome[i] for
\* every position of the preference (line 104), the other two look every
\* preference up with outcome.index (lines 27 and 176).
HappinessError(measure, preferences, outcome) ==
    IF measure = "KendallTau"
    THEN IF Len(outcome) < Len(preferences) THEN "IndexError" ELSE None
    ELSE IF Range(preferences) \subseteq Range(outcome) THEN None ELSE "ValueError"

----------------------------------------------------------------------------
(* Strategy generator and risk measure *)

\* A generator that leaves out the original ranking, for comparison.
PermutationsExceptOriginal(input) == Tail(permutations(input))

defaultStrategyGenerator(input) == permutations(input)

\* Rationals as <<numerator, denominator>>.
RatEq(a, b) == a[1] * b[2] = b[1] * a[2]

RatAdd(a, b) == <<a[1] * b[2] + b[1] * a[2], a[2] * b[2]>>

RatMul(a, b) == <<a[1] * b[1], a[2] * b[2]>>

RECURSIVE RatSum(_)
RatSum(s) == IF Len(s) = 0 THEN <<0, 1>> ELSE RatAdd(Head(s), RatSum(Tail(s)))

\* np.array(s).mean()
RatMean(s) == LET t == RatSum(s) IN <<t[1], t[2] * Len(s)>>

\* probStrategicVoting: the share of voters having an option above baseline.
\* opts is the list of per-voter option sets (list index v = position v+1).
probStrategicVoting(voterHappiness, opts) ==
    <<Cardinality({v \in DOMAIN voterHappiness :
          \E o2 \in opts[v + 1] : o2[2] > voterHappiness[v]}),
      Cardinality(DOMAIN voterHappiness)>>

\* The risk measures analyze is called with: probStrategicVoting as it is
\* (four parameters), and a caller's measure that takes the excluded voter
\* as a fifth parameter, ignores it and returns probStrategicVoting.
RiskMeasures == {"probStrategicVoting", "probStrategicVoting5"}

\* Number of positional parameters of the measure.
Parameters(measure) == IF measure = "probStrategicVoting" THEN 4 ELSE 5

----------------------------------------------------------------------------
(* Array objects *)

\* An assignment without .copy() (an alias of the source), for comparison.
CopyAliased(src, fresh) == src

\* The object x.copy() returns: a fresh one (fresh), never x itself (src).
CopyTarget(src, fresh) == fresh

\* heap after  dst = src.copy(); dst[:, col] = ranking
CopyAndSet(h, src, fresh, col, ranking) ==
    LET t == CopyTarget(src, fresh)
        h1 == [h EXCEPT ![t] = h[src]]
    IN  [h1 EXCEPT ![t][col] = ranking]

\* heap after  ref[:, col] = ranking
SetColumn(h, ref, col, ranking) == [h EXCEPT ![ref][col] = ranking]

Idle == [v \in Voters |-> <<>>]

Refs == {"voter_preference", "voter_preference_adj", "mod_pref"}

NothingTried ==
    [voter |-> <<>>, option |-> <<>>, raw |-> 0, recorded |-> 0, flagged |-> FALSE]

NoResults == [individual_happiness |-> <<>>, strategic_options |-> <<>>, risk |-> <<0, 1>>]

\* createNDistinctPermutations is not running.
\* preference_reconstruct is not running.
ChainIdle ==
    /\ leaderboard = <<>>
    /\ best_preference = <<>>
    /\ best_score = -1
    /\ current_preference = <<>>
    /\ current_score = 0
    /\ acceptance_window = <<>>
    /\ stability_counter = 0
    /\ phase = 1
    /\ step = 0
    /\ visited_score = -1
    /\ proposals = 0

\* ATVA3.analyze is not running.
A3Idle ==
    /\ sim_params = None
    /\ attempt = 0
    /\ reconstruct_preference = None
    /\ reconstruct_calls = 0
    /\ ChainIdle

\* No outcome is kept outside a call of analyze.
OutcomeIdle == outcome_values = <<>> /\ outcome_keys = <<>>

\* No measure is being called on its own.
MeasuresIdle ==
    /\ individual_risks = <<>>
    /\ count = 0
    /\ w_preferences = <<>>
    /\ w_outcome = <<>>
    /\ w_preferenceWeights = <<>>
    /\ w_distanceWeights = <<>>
    /\ weights = None
    /\ result = None

GeneratorIdle ==
    /\ g_input = <<>>
    /\ g_maxN = 0
    /\ permuteRange = <<>>
    /\ left = <<>>
    /\ middle = <<>>
    /\ right = <<>>
    /\ uniqueMiddles = {}
    /\ countAttempts = 0
    /\ successiveFailedAttempts = 0
    /\ permu = {}

----------------------------------------------------------------------------
(* Initial state: analyze has just been called *)

Init ==
    /\ analyst \in {"BTVA", "ATVA1", "ATVA2"}
    /\ voting_scheme \in VotingSchemes
    /\ happiness_measure \in HappinessMeasures
    /\ risk_measure \in (IF analyst = "ATVA2" THEN RiskMeasures ELSE {"probStrategicVoting"})
    /\ given \in [Voters -> Rankings]
    /\ heap = [r \in Refs |-> IF r = "voter_preference" THEN given ELSE Idle]
    /\ maxCollusionSize \in (IF analyst = "ATVA1" THEN 1 .. MaxCollusion ELSE {None})
    /\ exhaustiveSearch \in (IF analyst = "ATVA1" THEN BOOLEAN ELSE {None})
    /\ strategyGenerator = "defaultStrategyGenerator"
    /\ pc = "start"
    /\ error = None
    /\ individual_happiness = <<>>
    /\ all_options = <<>>
    /\ i = 0
    /\ oi = 1
    /\ mod_ref = None
    /\ options = {}
    /\ strategic_options = <<>>
    /\ risk = <<>>
    /\ collusion_permutations = <<>>
    /\ counter = 0
    /\ strategic_options_indices = <<>>
    /\ collusion_options = <<>>
    /\ evaluated = <<>>
    /\ finished = <<>>
    /\ param_ref = None
    /\ excluded_voter = <<>>
    /\ excluded_voter_preference = <<>>
    /\ excluded_voter_original_hapiness = <<>>
    /\ is_countered = FALSE
    /\ last = NothingTried
    /\ top = NoResults
    /\ fm = 0
    /\ strategic_option = None
    /\ todo = {}
    /\ counter_voting_risks = <<>>
    /\ GeneratorIdle
    /\ OutcomeIdle
    /\ MeasuresIdle
    /\ A3Idle
    /\ analyze_calls = 1

\* Python truthiness of an Optional[int]: None and 0 are false.
Truthy(x) == x # <<>> /\ x[1] # 0

\* Baseline happiness of every voter under the outcome of matrix pref.
Baseline(pref) ==
    CHOOSE levels \in
        {[v \in Voters |-> CallHappiness(happiness_measure, pref[v], outcome)] :
            outcome \in {Outcome(voting_scheme, pref)}} : TRUE

\* The exception that ends the computation of the baseline, or None.
BaselineError(pref) ==
    LET outcome == Outcome(voting_scheme, pref)
        failing == {v \in DOMAIN pref :
                       HappinessError(happiness_measure, pref[v], outcome) # None}
    IN  IF failing = {} THEN None
        ELSE HappinessError(happiness_measure,
                            pref[CHOOSE v \in failing : \A w \in failing : v <= w],
                            outcome)

----------------------------------------------------------------------------
(* BTVA.analyze *)

\* The filter of the commented-out lines 96-99, for comparison.
RetainOnlyImproving(mod_happiness, baseline) == mod_happiness > baseline

\* Whether a tried (option, mod_happiness) pair is put into the voter's set.
\* The filter "mod_happiness > individual_happiness[i]" is commented out in
\* the code: every pair is added.
RetainOption(mod_happiness, baseline) == TRUE

\* Lines 51-71: sincere outcome, happiness levels, all_options.
BTVA_Baseline ==
    /\ analyst = "BTVA" /\ pc = "start"
    /\ IF BaselineError(heap["voter_preference"]) # None
       THEN /\ pc' = "error"
            /\ error' = BaselineError(heap["voter_preference"])
            /\ UNCHANGED <<individual_happiness, all_options, strategic_options, i, oi>>
       ELSE /\ individual_happiness' = Baseline(heap["voter_preference"])
            /\ all_options' = defaultStrategyGenerator(heap["voter_preference"][0])
            /\ strategic_options' = <<>>
            /\ i' = 0 /\ oi' = 1
            /\ pc' = "search"
            /\ UNCHANGED error
    /\ UNCHANGED <<cfgvars, heap, mod_ref, options, risk, a1vars, a2vars>>

\* Lines 75-103: one iteration of "for option in all_options" for voter i;
\* the first one follows options = set() and mod_pref = copy(), the last one
\* is followed by strategic_options.append(options).
BTVA_TryOption ==
    /\ analyst = "BTVA" /\ pc = "search"
    /\ i < NumVoters /\ oi <= Len(all_options)
    /\ \E ref \in {IF oi = 1 THEN CopyTarget("voter_preference", "mod_pref") ELSE mod_ref},
          h2 \in {IF oi = 1
                  THEN CopyAndSet(heap, "voter_preference", "mod_pref", i, all_options[oi])
                  ELSE SetColumn(heap, mod_ref, i, all_options[oi])} :
       LET option == all_options[oi]
           mod_outcome == Outcome(voting_scheme, h2[ref])
           raised ==
               HappinessError(happiness_measure, h2["voter_preference"][i], mod_outcome)
           mod_happiness ==
               CallHappiness(happiness_measure, h2["voter_preference"][i], mod_outcome)
           before == IF oi = 1 THEN {} ELSE options
           opts2 == IF RetainOption(mod_happiness, individual_happiness[i])
                    THEN before \cup {<<option, mod_happiness>>}
                    ELSE before
       IN  /\ heap' = h2
           /\ mod_ref' = ref
           /\ IF raised # None
              THEN /\ pc' = "error"
                   /\ error' = raised
                   /\ options' = before
                   /\ UNCHANGED <<last, strategic_options, i, oi>>
              ELSE /\ options' = opts2
                   /\ last' = [voter |-> <<i>>, option |-> option, raw |-> mod_happiness,
                               recorded |-> mod_happiness, flagged |-> FALSE]
                   /\ IF oi = Len(all_options)
                      THEN /\ strategic_options' = Append(strategic_options, opts2)
                           /\ i' = i + 1 /\ oi' = 1
                      ELSE /\ oi' = oi + 1
                           /\ UNCHANGED <<strategic_options, i>>
                   /\ UNCHANGED <<pc, error>>
    /\ UNCHANGED <<cfgvars, individual_happiness, all_options, risk,
                   a1vars, param_ref, excluded_voter, excluded_voter_preference,
                   excluded_voter_original_hapiness, is_countered, top, fm,
                   strategic_option, todo, counter_voting_risks>>

\* Lines 104-111: the risk measure, and return.
BTVA_Return ==
    /\ analyst = "BTVA" /\ pc = "search" /\ i = NumVoters
    /\ risk' = probStrategicVoting(individual_happiness, strategic_options)
    /\ pc' = "done"
    /\ UNCHANGED <<cfgvars, heap, error, individual_happiness, all_options, i, oi,
                   mod_ref, options, strategic_options, a1vars, a2vars>>

----------------------------------------------------------------------------
(* Coalition generators *)

\* itertools.combinations(input, r): r-subsequences in lexicographic order.
RECURSIVE combinations(_, _)
combinations(input, r) ==
    IF r = 0 THEN << <<>> >>
    ELSE IF Len(input) < r THEN <<>>
    ELSE LET with == combinations(Tail(input), r - 1)
             without == combinations(Tail(input), r)
         IN  [k \in 1 .. Len(with) |-> <<Head(input)>> \o with[k]] \o without

defaultCoalitionGenerator(input, maxN) ==
    Flatten([size \in 1 .. maxN |-> combinations(input, size)])

\* ATVA1 imports its coalition generator from strategy_generators under this
\* name, which no source file defines.  The coalitions are the combinations
\* of the voter indices of size 1 .. maxCollusionSize, which is what
\* defaultCoalitionGenerator returns.
combinationStrategyGenerator(input, maxN) == defaultCoalitionGenerator(input, maxN)

----------------------------------------------------------------------------
(* ATVA1.analyze *)

\* list.remove(x): the list without its first x; ValueError if x is absent.
ListRemove(s, x) ==
    IF x \in Range(s)
    THEN [error |-> None, list |-> RemoveAt(s, IndexOf(s, x))]
    ELSE [error |-> "ValueError", list |-> s]

\* range(n) as a list
RangeList(n) == [k \in 1 .. n |-> k - 1]

\* A weaker acceptance test, for comparison: no member loses.
ViableNotWorse(delta_happiness) == \A k \in DOMAIN delta_happiness : delta_happiness[k] >= 0

\* Line 83: whether the coalition's joint assignment is recorded.
Viable(delta_happiness) == \A k \in DOMAIN delta_happiness : delta_happiness[k] > 0

\* A loop without the break of lines 89-90, for comparison.
NeverStop(accepted, exhaustive) == FALSE

\* Lines 89-90: whether the while loop is left after this assignment.
StopSearch(accepted, exhaustive) == accepted /\ ~exhaustive

\* Lines 76-82: change in happiness of each coalition member under the
\* outcome of the modified matrix, against the member's baseline.
DeltaHappiness(cand, sincere, modified, baseline) ==
    CHOOSE delta \in
        {[k \in DOMAIN cand |->
            CallHappiness(happiness_measure, sincere[cand[k]], current_outcome)
                - baseline[cand[k]]] :
            current_outcome \in {Outcome(voting_scheme, modified)}} : TRUE

\* The coalition members' columns of matrix pref.
Assignment(cand, pref) == [k \in DOMAIN cand |-> pref[cand[k]]]

\* Lines 66-67: each member's column set to that member's first alternative.
RECURSIVE ApplyFirst(_, _, _, _, _)
ApplyFirst(h, ref, cand, so, k) ==
    IF k > Len(cand) THEN [h |-> h, status |-> "ok"]
    ELSE IF Len(so[cand[k] + 1]) = 0 THEN [h |-> h, status |-> "IndexError"]
    ELSE ApplyFirst(SetColumn(h, ref, cand[k], so[cand[k] + 1][1]), ref, cand, so, k + 1)

\* Line 95: the length digit d's index is compared with.
Radix(so, cand, d) == Len(so[d + 1])

\* Lines 94-102: the carry loop from digit d on (d is the loop variable i).
\* status: "end" the loop ran to its end, "break" line 100, "IndexError".
RECURSIVE CarryLoop(_, _, _, _, _, _, _)
CarryLoop(d, idx, h, ref, cand, so, size) ==
    IF d = size THEN [idx |-> idx, h |-> h, status |-> "end"]
    ELSE IF d >= Len(so) THEN [idx |-> idx, h |-> h, status |-> "IndexError"]
    ELSE LET overflow == idx[d + 1] >= Radix(so, cand, d)
         IN  IF overflow /\ ~(d + 1 < size)
             THEN [idx |-> idx, h |-> h, status |-> "break"]
             ELSE LET idx2 == IF overflow
                              THEN [idx EXCEPT ![d + 1] = 0, ![d + 2] = @ + 1]
                              ELSE idx
                  IN  IF d >= Len(cand) \/ idx2[d + 1] >= Len(so[cand[d + 1] + 1])
                      THEN [idx |-> idx2, h |-> h, status |-> "IndexError"]
                      ELSE CarryLoop(d + 1, idx2,
                               SetColumn(h, ref, cand[d + 1],
                                         so[cand[d + 1] + 1][idx2[d + 1] + 1]),
                               ref, cand, so, size)

\* Lines 93-104: apply the next joint assignment.  status: "continue" (the
\* while loop goes on), "exhausted" (line 104), "IndexError".
NextAssignment(idx, h, ref, cand, so, size) ==
    LET r == CarryLoop(0, [idx EXCEPT ![1] = @ + 1], h, ref, cand, so, size)
    IN  IF r.status = "IndexError" THEN r
        ELSE IF r.idx[size] >= Len(so[Len(so)])
             THEN [r EXCEPT !.status = "exhausted"]
             ELSE [r EXCEPT !.status = "continue"]

\* The list createNDistinctPermutations builds from the set of rankings it
\* has collected.  The list follows the iteration order of a Python set; the
\* model follows the calls in which that is the order of itertools over the
\* candidates in ascending order.
SampleList(collected) ==
    LET all == permutations([k \in 1 .. m |-> k])
        Collected(r) == r \in collected
    IN  SelectSeq(all, Collected)

\* strategy_generators.py, lines 34-64, with permuteRange = None: what
\* createNDistinctPermutations(input, maxN) can return.  The while loop ends
\* with maxN distinct shuffles of input, or with fewer after 15 repeats in a
\* row; its first shuffle is always new.
createNDistinctPermutations(input, maxN) ==
    {SampleList(collected) :
        collected \in {c \in SUBSET Arrangements(input) :
                          /\ Cardinality(c) <= maxN
                          /\ maxN > 0 => c # {}}}

\* Line 49: the lists self.strategyGenerator(voter_preference[:, i], m) can
\* return for the voters, list index k for voter k - 1.  (Every column holds
\* the same candidates, so that the sampling generator has the same returns
\* for every voter.)
GeneratedOptions(pref) ==
    IF strategyGenerator = "createNDistinctPermutations"
    THEN [1 .. NumVoters -> createNDistinctPermutations(pref[0], m)]
    ELSE {[k \in 1 .. NumVoters |-> defaultStrategyGenerator(pref[k - 1])]}

\* Lines 30-55: baseline, each voter's alternatives without the sincere
\* ranking, the coalitions.
A1_Baseline ==
    /\ analyst = "ATVA1" /\ pc = "start"
    /\ \E generated \in GeneratedOptions(heap["voter_preference"]) :
       LET pref == heap["voter_preference"]
           removed == [k \in 1 .. NumVoters |-> ListRemove(generated[k], pref[k - 1])]
       IN  /\ individual_happiness' = Baseline(pref)
           /\ IF \E k \in 1 .. NumVoters : removed[k].error # None
              THEN /\ pc' = "error" /\ error' = "ValueError"
                   \* line 50 has removed the sincere ranking of the voters
                   \* before the first one whose list does not hold it
                   /\ strategic_options' =
                          [k \in 1 .. NumVoters |->
                              IF \A j \in 1 .. k : removed[j].error = None
                              THEN removed[k].list ELSE generated[k]]
                   /\ UNCHANGED collusion_permutations
              ELSE /\ pc' = "coalition" /\ error' = error
                   /\ strategic_options' = [k \in 1 .. NumVoters |-> removed[k].list]
                   /\ collusion_permutations' =
                          combinationStrategyGenerator(RangeList(NumVoters), maxCollusionSize)
    /\ counter' = 0
    /\ collusion_options' = <<>>
    /\ UNCHANGED <<cfgvars, heap, all_options, i, oi, mod_ref, options, risk,
                   strategic_options_indices, evaluated, finished, a2vars>>

\* Lines 58-67: the next coalition: indices at 0, a fresh copy of the
\* matrix, every member's first alternative applied.
A1_StartCoalition ==
    /\ analyst = "ATVA1" /\ pc = "coalition"
    /\ counter < Len(collusion_permutations)
    /\ \E ref \in {CopyTarget("voter_preference", "mod_pref")} :
       \E r \in {ApplyFirst([heap EXCEPT ![ref] = heap["voter_preference"]], ref,
                            collusion_permutations[counter + 1], strategic_options, 1)} :
       LET collusion_candidate == collusion_permutations[counter + 1]
       IN  /\ counter' = counter + 1
           /\ strategic_options_indices' = [k \in 1 .. maxCollusionSize |-> 0]
           /\ mod_ref' = ref
           /\ heap' = r.h
           /\ evaluated' = <<>>
           /\ IF r.status = "IndexError"
              THEN /\ pc' = "error" /\ error' = "IndexError"
                   /\ finished' = Append(finished,
                          [coalition |-> collusion_candidate, evaluated |-> <<>>,
                           how |-> "IndexError"])
              ELSE /\ pc' = "eval" /\ UNCHANGED <<error, finished>>
    /\ UNCHANGED <<cfgvars, individual_happiness, all_options, i, oi, options,
                   strategic_options, risk, collusion_permutations,
                   collusion_options, a2vars>>

\* Lines 69-104: one iteration of the while loop: evaluate the current joint
\* assignment, record it if viable, then stop (first-found) or apply the
\* next assignment.
A1_Evaluate ==
    /\ analyst = "ATVA1" /\ pc = "eval"
    /\ \E delta_happiness \in
              {DeltaHappiness(collusion_permutations[counter], heap["voter_preference"],
                              heap[mod_ref], individual_happiness)},
          r \in {NextAssignment(strategic_options_indices, heap, mod_ref,
                                collusion_permutations[counter], strategic_options,
                                maxCollusionSize)} :
       LET collusion_candidate == collusion_permutations[counter]
           modified_preference_matrix == heap[mod_ref]
           joint == Assignment(collusion_candidate, modified_preference_matrix)
           accepted == Viable(delta_happiness)
           seen == Append(evaluated, joint)
           Leave(how) == finished' = Append(finished,
                             [coalition |-> collusion_candidate, evaluated |-> seen,
                              how |-> how])
       IN  /\ collusion_options' =
                  IF accepted
                  THEN Append(collusion_options, <<collusion_candidate, joint, delta_happiness>>)
                  ELSE collusion_options
           /\ evaluated' = seen
           /\ IF StopSearch(accepted, exhaustiveSearch)
              THEN /\ pc' = "coalition" /\ Leave("first-found")
                   /\ UNCHANGED <<heap, strategic_options_indices, error>>
              ELSE /\ heap' = r.h
                   /\ strategic_options_indices' = r.idx
                   /\ CASE r.status = "IndexError" ->
                               pc' = "error" /\ error' = "IndexError" /\ Leave("IndexError")
                        [] r.status = "exhausted" ->
                               pc' = "coalition" /\ Leave("exhausted") /\ error' = error
                        [] OTHER ->
                               pc' = "eval" /\ UNCHANGED <<finished, error>>
    /\ UNCHANGED <<cfgvars, individual_happiness, all_options, i, oi, mod_ref,
                   options, strategic_options, risk, collusion_permutations, counter,
                   a2vars>>

\* Lines 106-114: each voter's options out of the recorded collusions.
SplitOptions(recorded, baseline) ==
    [k \in 1 .. NumVoters |->
        {<<recorded[e][2][index], recorded[e][3][index] + baseline[k - 1]>> :
            <<e, index>> \in {x \in (DOMAIN recorded) \X (1 .. NumVoters) :
                                 /\ x[2] \in DOMAIN recorded[x[1]][1]
                                 /\ recorded[x[1]][1][x[2]] = k - 1}}]

\* Lines 106-123: after the last coalition: the risk, and return.
A1_Return ==
    /\ analyst = "ATVA1" /\ pc = "coalition"
    /\ counter = Len(collusion_permutations)
    /\ strategic_options' = SplitOptions(collusion_options, individual_happiness)
    /\ risk' = probStrategicVoting(individual_happiness, strategic_options')
    /\ pc' = "done"
    /\ UNCHANGED <<cfgvars, heap, error, individual_happiness, all_options, i, oi,
                   mod_ref, options, a1vars, a2vars>>

----------------------------------------------------------------------------
(* ATVA2._single_step_analyse and ATVA2.analyze *)

\* Lines 154-157: self.all_options is generated only while it is None or empty.
AllOptions(current, pref) ==
    IF current = <<>> THEN defaultStrategyGenerator(pref[0]) ELSE current

\* Line 163: whether voter v is skipped as the excluded voter.
SkipsVoter(excluded, v) == Truthy(excluded) /\ v = excluded[1]

\* A classification that flags every beneficial move, for comparison.
IsCounterAlways(original_hapiness, adj_hapiness) == TRUE

\* Lines 204-211: whether a move that benefits its voter counts as a counter
\* vote against the excluded voter.
IsCounter(original_hapiness, adj_hapiness) == ~(original_hapiness < adj_hapiness)

\* A guard that also lets through moves that only match the baseline, for
\* comparison.
BeneficialOrEqual(opts, original_hapiness) == {o \in opts : original_hapiness <= o[2]}

\* Line 81: the first moves for which the counter search is run.
BeneficialMoves(opts, original_hapiness) == {o \in opts : original_hapiness < o[2]}

\* (1 - x) on rationals
OneMinus(x) == <<x[2] - x[1], x[2]>>

\* Lines 135-161: the prologue of _single_step_analyse on matrix pref.
A2_Prologue(pref) ==
    /\ individual_happiness' = Baseline(pref)
    /\ all_options' = AllOptions(all_options, pref)
    /\ is_countered' = FALSE
    /\ strategic_options' = <<>>
    /\ i' = 0 /\ oi' = 1
    /\ last' = NothingTried
    /\ pc' = "single"

\* analyze lines 60-68: step 1, the call on the caller's matrix.
A2_Start ==
    /\ analyst = "ATVA2" /\ pc = "start"
    /\ param_ref' = "voter_preference"
    /\ excluded_voter' = <<>>
    /\ excluded_voter_preference' = <<>>
    /\ excluded_voter_original_hapiness' = <<>>
    /\ \E voter_preference \in {heap["voter_preference"]} : A2_Prologue(voter_preference)
    /\ UNCHANGED <<cfgvars, heap, error, mod_ref, options, risk, a1vars, top, fm,
                   strategic_option, todo, counter_voting_risks>>

\* Lines 162-165: the excluded voter gets the empty set.
A2_SkipExcluded ==
    /\ analyst = "ATVA2" /\ pc = "single"
    /\ i < NumVoters /\ SkipsVoter(excluded_voter, i)
    /\ strategic_options' = Append(strategic_options, {})
    /\ i' = i + 1 /\ oi' = 1
    /\ UNCHANGED <<cfgvars, heap, pc, error, individual_happiness, all_options,
                   mod_ref, options, risk, a1vars, a2vars>>

\* Lines 167-214: one iteration of "for option in self.all_options" for
\* voter i (the first one follows the copy, the last one the append).
A2_TryOption ==
    /\ analyst = "ATVA2" /\ pc = "single"
    /\ i < NumVoters /\ ~SkipsVoter(excluded_voter, i)
    /\ oi <= Len(all_options)
    /\ \E ref \in {IF oi = 1 THEN CopyTarget(param_ref, "mod_pref") ELSE mod_ref},
          h2 \in {IF oi = 1
                  THEN CopyAndSet(heap, param_ref, "mod_pref", i, all_options[oi])
                  ELSE SetColumn(heap, mod_ref, i, all_options[oi])} :
       \E mod_outcome \in {Outcome(voting_scheme, h2[ref])} :
       LET option == all_options[oi]
           raw == CallHappiness(happiness_measure, h2[param_ref][i], mod_outcome)
           benefits == excluded_voter # <<>> /\ raw > individual_happiness[i]
           view == excluded_voter_preference
           excluded_voter_adj_hapiness ==
               CallHappiness(happiness_measure, h2[view[1]][view[2]], mod_outcome)
           counters == benefits /\ IsCounter(excluded_voter_original_hapiness[1],
                                             excluded_voter_adj_hapiness)
           mod_happiness == IF benefits /\ ~counters THEN individual_happiness[i] ELSE raw
           before == IF oi = 1 THEN {} ELSE options
           opts2 == IF RetainOption(mod_happiness, individual_happiness[i])
                    THEN before \cup {<<option, mod_happiness>>}
                    ELSE before
       IN  /\ heap' = h2
           /\ mod_ref' = ref
           /\ options' = opts2
           /\ is_countered' = (is_countered \/ counters)
           /\ last' = [voter |-> <<i>>, option |-> option, raw |-> raw,
                       recorded |-> mod_happiness, flagged |-> counters]
           /\ IF oi = Len(all_options)
              THEN /\ strategic_options' = Append(strategic_options, opts2)
                   /\ i' = i + 1 /\ oi' = 1
              ELSE /\ oi' = oi + 1
                   /\ UNCHANGED <<strategic_options, i>>
    /\ UNCHANGED <<cfgvars, pc, error, individual_happiness, all_options, risk,
                   a1vars, param_ref, excluded_voter, excluded_voter_preference,
                   excluded_voter_original_hapiness, top, fm, strategic_option, todo,
                   counter_voting_risks>>

\* Lines 216-243: the risk measure, called with five arguments (TypeError
\* for a measure of four parameters), and return to analyze: after step 1 to
\* the start of step 2 (line 71), after a counter search to line 100.
A2_Return ==
    /\ analyst = "ATVA2" /\ pc = "single" /\ i = NumVoters
    /\ IF Parameters(risk_measure) < 5
       THEN /\ pc' = "error" /\ error' = "TypeError"
            /\ UNCHANGED <<risk, top, fm, todo, counter_voting_risks>>
       ELSE LET r == probStrategicVoting(individual_happiness, strategic_options)
            IN  /\ risk' = r
                /\ pc' = "step2" /\ error' = error
                /\ IF excluded_voter = <<>>
                   THEN /\ top' = [individual_happiness |-> individual_happiness,
                                   strategic_options |-> strategic_options, risk |-> r]
                        /\ counter_voting_risks' = <<>>
                        /\ fm' = 0
                        /\ todo' = BeneficialMoves(strategic_options[1],
                                                   individual_happiness[0])
                   ELSE /\ counter_voting_risks' = Append(counter_voting_risks, r)
                        /\ UNCHANGED <<top, fm, todo>>
    /\ UNCHANGED <<cfgvars, heap, individual_happiness, all_options, i, oi,
                   mod_ref, options, strategic_options, a1vars, param_ref,
                   excluded_voter, excluded_voter_preference,
                   excluded_voter_original_hapiness, is_countered, last,
                   strategic_option>>

\* analyze lines 77-97: the next first move of voter fm that raises the
\* voter's happiness (the set is iterated in no particular order): the
\* adjusted copy of the matrix, and the call of the counter search.
A2_Nested ==
    /\ analyst = "ATVA2" /\ pc = "step2" /\ fm < NumVoters
    /\ \E o \in todo :
       \E ref \in {CopyTarget("voter_preference", "voter_preference_adj")},
          h2 \in {CopyAndSet(heap, "voter_preference", "voter_preference_adj", fm, o[1])} :
       \E voter_preference_adj \in {h2[ref]} :
        /\ todo' = todo \ {o}
        /\ strategic_option' = o
        /\ heap' = h2
        /\ param_ref' = ref
        /\ excluded_voter' = <<fm>>
        /\ excluded_voter_preference' = <<"voter_preference", fm>>
        /\ excluded_voter_original_hapiness' = <<top.individual_happiness[fm]>>
        /\ A2_Prologue(voter_preference_adj)
    /\ UNCHANGED <<cfgvars, error, mod_ref, options, risk, a1vars, top, fm,
                   counter_voting_risks>>

\* analyze line 73: the next voter of step 2.
A2_NextVoter ==
    /\ analyst = "ATVA2" /\ pc = "step2" /\ fm < NumVoters /\ todo = {}
    /\ fm' = fm + 1
    /\ todo' = IF fm + 1 < NumVoters
               THEN BeneficialMoves(top.strategic_options[fm + 2],
                                    top.individual_happiness[fm + 1])
               ELSE {}
    /\ UNCHANGED <<cfgvars, heap, pc, error, loopvars, a1vars, param_ref,
                   excluded_voter, excluded_voter_preference,
                   excluded_voter_original_hapiness, is_countered, last, top,
                   strategic_option, counter_voting_risks>>

\* analyze lines 107-111: the adjusted risk, and return of the step 1 results.
A2_Finish ==
    /\ analyst = "ATVA2" /\ pc = "step2" /\ fm = NumVoters
    /\ risk' = IF counter_voting_risks # <<>>
               THEN RatMul(top.risk, OneMinus(RatMean(counter_voting_risks)))
               ELSE top.risk
    /\ individual_happiness' = top.individual_happiness
    /\ strategic_options' = top.strategic_options
    /\ pc' = "done"
    /\ UNCHANGED <<cfgvars, heap, error, all_options, i, oi, mod_ref, options,
                   a1vars, a2vars>>

Next ==
    \/ BTVA_Baseline \/ BTVA_TryOption \/ BTVA_Return
    \/ A1_Baseline \/ A1_StartCoalition \/ A1_Evaluate \/ A1_Return
    \/ A2_Start \/ A2_SkipExcluded \/ A2_TryOption \/ A2_Return
    \/ A2_Nested \/ A2_NextVoter \/ A2_Finish

Spec == Init /\ [][Next]_vars

----------------------------------------------------------------------------
(* createNDistinctPermutations, as a state machine of its own: one         *)
(* behaviour is one call, one step of it one iteration of the while loop   *)
(* with one result of shuffle.                                             *)

\* Largest maxN the generator is called with here.
MaxN == 7

\* Line 50: the number of successive failures that ends the loop.
MaxSuccessiveFailures == 15

\* No analyst is running: arguments and locals of analyze at rest.
AnalystIdle ==
    /\ voting_scheme = None
    /\ happiness_measure = None
    /\ risk_measure = None
    /\ given = Idle
    /\ heap = [r \in Refs |-> Idle]
    /\ maxCollusionSize = None
    /\ exhaustiveSearch = None
    /\ strategyGenerator = None
    /\ error = None
    /\ individual_happiness = <<>>
    /\ all_options = <<>>
    /\ i = 0
    /\ oi = 1
    /\ mod_ref = None
    /\ options = {}
    /\ strategic_options = <<>>
    /\ risk = <<>>
    /\ collusion_permutations = <<>>
    /\ counter = 0
    /\ strategic_options_indices = <<>>
    /\ collusion_options = <<>>
    /\ evaluated = <<>>
    /\ finished = <<>>
    /\ param_ref = None
    /\ excluded_voter = <<>>
    /\ excluded_voter_preference = <<>>
    /\ excluded_voter_original_hapiness = <<>>
    /\ is_countered = FALSE
    /\ last = NothingTried
    /\ top = NoResults
    /\ fm = 0
    /\ strategic_option = None
    /\ todo = {}
    /\ counter_voting_risks = <<>>

\* What the generator never writes.
analystvars == <<callvars, outvars, a3vars, analyze_calls, measurevars, heap, error, loopvars, a1vars, a2vars>>

\* len(range(start, stop))
RangeLen(r) == IF r[2] > r[1] THEN r[2] - r[1] ELSE 0

\* Line 36: the range the call works with.
EffectiveRange(r, len) == IF r = <<>> \/ r[2] > len THEN <<0, len>> ELSE r

\* A count of failures that a new ranking leaves as it is.
FailuresKept(seen, failures) == IF seen THEN failures + 1 ELSE failures

\* Lines 54-58: the failures in a row after one attempt.
FailuresAfter(seen, failures) == IF seen THEN failures + 1 ELSE 0

\* Parts cut from the start of the ranking whatever their first position.
SliceFromStart(s, a, b) == SubSeq(s, 1, IF b < Len(s) THEN b ELSE Len(s))

\* s[a:b] for 0 <= a and 0 <= b
Slice(s, a, b) == SubSeq(s, a + 1, IF b < Len(s) THEN b ELSE Len(s))

\* A loop that does not look at the number of rankings collected.
LoopIgnoresLimit(unique, limit, failures) == failures < MaxSuccessiveFailures

\* A loop that gives up one failure late.
LoopOneMore(unique, limit, failures) ==
    Cardinality(unique) < limit /\ failures <= MaxSuccessiveFailures

\* Line 50: the condition of the while loop.
LoopGoesOn(unique, limit, failures) ==
    Cardinality(unique) < limit /\ failures < MaxSuccessiveFailures

\* The permuteRange arguments: None, and range(a, b) with 0 <= a, b.
PermuteRanges == {<<>>} \cup ((0 .. m) \X (0 .. (m + 1)))

\* The rankings the generator is called with.
GenInputs == {<<1, 2, 3>>, <<3, 1, 2>>}

InitGen ==
    /\ analyst = "createNDistinctPermutations"
    /\ pc = "start"
    /\ AnalystIdle
    /\ OutcomeIdle
    /\ MeasuresIdle
    /\ A3Idle
    /\ analyze_calls = 0
    /\ g_input \in GenInputs
    /\ g_maxN \in 0 .. MaxN
    /\ permuteRange \in PermuteRanges
    /\ left = <<>>
    /\ middle = <<>>
    /\ right = <<>>
    /\ uniqueMiddles = {}
    /\ countAttempts = 0
    /\ successiveFailedAttempts = 0
    /\ permu = {}

\* Lines 34-48: the range, the early return for an empty range, the three
\* parts of the input, the counters.
Gen_Enter ==
    /\ analyst = "createNDistinctPermutations" /\ pc = "start"
    /\ LET r == EffectiveRange(permuteRange, Len(g_input))
       IN  /\ permuteRange' = r
           /\ IF RangeLen(r) = 0
              THEN /\ pc' = "done"
                   /\ UNCHANGED <<left, middle, right>>
              ELSE /\ pc' = "loop"
                   /\ left' = Slice(g_input, 0, r[1])
                   /\ middle' = Slice(g_input, r[1], r[2])
                   /\ right' = Slice(g_input, r[2], Len(g_input))
    /\ uniqueMiddles' = {}
    /\ countAttempts' = 0
    /\ successiveFailedAttempts' = 0
    /\ permu' = {}
    /\ UNCHANGED <<analystvars, g_input, g_maxN>>

\* Lines 50-58: one iteration of the while loop; shuffle leaves any
\* arrangement of middle.
Gen_Shuffle ==
    /\ analyst = "createNDistinctPermutations" /\ pc = "loop"
    /\ LoopGoesOn(uniqueMiddles, g_maxN, successiveFailedAttempts)
    /\ \E outputTuple \in Arrangements(middle) :
        /\ middle' = outputTuple
        /\ countAttempts' = countAttempts + 1
        /\ uniqueMiddles' = uniqueMiddles \cup {outputTuple}
        /\ successiveFailedAttempts' =
              FailuresAfter(outputTuple \in uniqueMiddles, successiveFailedAttempts)
    /\ UNCHANGED <<analystvars, pc, g_input, g_maxN, permuteRange, left, right, permu>>

\* Lines 60-64: the loop has ended; the list of left + middle + right for
\* every collected middle.  The list follows the iteration order of the set;
\* its entries are distinct, and the model keeps the set of them.
Gen_Return ==
    /\ analyst = "createNDistinctPermutations" /\ pc = "loop"
    /\ ~LoopGoesOn(uniqueMiddles, g_maxN, successiveFailedAttempts)
    /\ permu' = {left \o mid \o right : mid \in uniqueMiddles}
    /\ pc' = "done"
    /\ UNCHANGED <<analystvars, g_input, g_maxN, permuteRange, left, middle, right,
                   uniqueMiddles, countAttempts, successiveFailedAttempts>>

NextGen == Gen_Enter \/ Gen_Shuffle \/ Gen_Return

SpecGen == InitGen /\ [][NextGen]_vars

\* Largest maxN of the calls whose termination is checked.
FairMaxN == 4

\* The calls whose termination is checked: one input, every range.
InitGenFair == InitGen /\ g_input = <<1, 2, 3>> /\ g_maxN <= FairMaxN

\* The call is sequential code: whenever it can take its next step, it does.
SpecGenFair == InitGenFair /\ [][NextGen]_vars /\ WF_vars(NextGen)

----------------------------------------------------------------------------
(* The outcome handed to the happiness measure (BTVA.analyze, lines 53-58), *)
(* for matrices of one to OutcomeVoters voters and every voting scheme.     *)

OutcomeVoters == 4

AllSchemes == {"plurality_voting", "borda_count_voting", "anti_plurality_voting"}

\* Every well-formed matrix of n voters.
Matrices(n) == [0 .. (n - 1) -> Rankings]

\* analyze's locals other than the outcome, at rest.
LocalsIdle ==
    /\ error = None
    /\ individual_happiness = <<>>
    /\ all_options = <<>>
    /\ i = 0
    /\ oi = 1
    /\ mod_ref = None
    /\ options = {}
    /\ strategic_options = <<>>
    /\ risk = <<>>
    /\ collusion_permutations = <<>>
    /\ counter = 0
    /\ strategic_options_indices = <<>>
    /\ collusion_options = <<>>
    /\ evaluated = <<>>
    /\ finished = <<>>
    /\ param_ref = None
    /\ excluded_voter = <<>>
    /\ excluded_voter_preference = <<>>
    /\ excluded_voter_original_hapiness = <<>>
    /\ is_countered = FALSE
    /\ last = NothingTried
    /\ top = NoResults
    /\ fm = 0
    /\ strategic_option = None
    /\ todo = {}
    /\ counter_voting_risks = <<>>

InitOutcome ==
    /\ analyst = "outcome"
    /\ pc = "start"
    /\ voting_scheme \in AllSchemes
    /\ \E n \in 1 .. OutcomeVoters : given \in Matrices(n)
    /\ happiness_measure = None
    /\ risk_measure = None
    /\ maxCollusionSize = None
    /\ exhaustiveSearch = None
    /\ strategyGenerator = None
    /\ heap = [r \in Refs |-> Idle]
    /\ LocalsIdle
    /\ GeneratorIdle
    /\ OutcomeIdle
    /\ MeasuresIdle
    /\ A3Idle
    /\ analyze_calls = 1

\* Line 54: outcome = voting_scheme(voter_preference).
Out_Score ==
    /\ analyst = "outcome" /\ pc = "start"
    /\ outcome_values' = CallVotingScheme(voting_scheme, given)
    /\ pc' = "scored"
    /\ UNCHANGED <<callvars, genvars, a3vars, analyze_calls, measurevars, outcome_keys, heap, error, loopvars, a1vars, a2vars>>

\* Lines 55-58 and 64: the dict sorted by value, reverse=True, and its keys.
Out_Sort ==
    /\ analyst = "outcome" /\ pc = "scored"
    /\ outcome_keys' = SortedOutcome(outcome_values)
    /\ pc' = "done"
    /\ UNCHANGED <<callvars, genvars, a3vars, analyze_calls, measurevars, outcome_values, heap, error, loopvars, a1vars, a2vars>>

NextOutcome == Out_Score \/ Out_Sort

SpecOutcome == InitOutcome /\ [][NextOutcome]_vars

----------------------------------------------------------------------------
(* BTVA.analyze on matrices that are not well-formed.                      *)

\* A column is well-formed when it holds every candidate once.
WellFormed(pref) == \A v \in DOMAIN pref : pref[v] \in Rankings

\* Every matrix of the right shape with a column that is not.
MalformedMatrices ==
    {g \in [Voters -> [1 .. m -> Candidates]] : ~WellFormed(g)}

InitMalformed ==
    /\ analyst = "BTVA"
    /\ pc = "start"
    /\ voting_scheme = "plurality_voting"
    /\ happiness_measure = "KendallTau"
    /\ risk_measure = "probStrategicVoting"
    /\ given \in MalformedMatrices
    /\ heap = [r \in Refs |-> IF r = "voter_preference" THEN given ELSE Idle]
    /\ maxCollusionSize = None
    /\ exhaustiveSearch = None
    /\ strategyGenerator = "defaultStrategyGenerator"
    /\ LocalsIdle
    /\ GeneratorIdle
    /\ OutcomeIdle
    /\ MeasuresIdle
    /\ A3Idle
    /\ analyze_calls = 1

NextBTVA == BTVA_Baseline \/ BTVA_TryOption \/ BTVA_Return

SpecMalformed == InitMalformed /\ [][NextBTVA]_vars

----------------------------------------------------------------------------
(* ATVA3.analyze and preference_reconstruct.  One step of the chain is one  *)
(* iteration of a for loop: the voter, the two rows and the outcome of      *)
(* np.random.rand() are chosen by the step.                                 *)

\* Number of voters of the matrices ATVA3 is called with.
A3Voters == 1

\* Calls of preference_reconstruct after which the model stops following
\* analyze.
MaxCalls == 5

NumSimulations == 2
WindowSize == 2
StableWindow == 1

\* The matrices whose analysis is followed.
A3Inputs == [0 .. (A3Voters - 1) -> {<<1, 2, 3>>, <<3, 1, 2>>}]

\* The sim_params the calls are made with; rates are <<numerator, denominator>>.
SimParams ==
    {[num_simulations |-> NumSimulations, window_size |-> WindowSize,
      stable_window |-> StableWindow, target_acceptance |-> t,
      improvement_threshold |-> <<1, 100>>] : t \in {<<3, 10>>, <<1, 2>>, <<1, 1>>}}

\* np.empty((m, n), dtype="U1"): every cell the empty string (0 here).
EmptyMatrix == [v \in 0 .. (A3Voters - 1) |-> [k \in 1 .. m |-> 0]]

\* Values preference_reconstruct hands back, with their Python type.
NdArray(matrix) == [type |-> "ndarray", value |-> matrix]
TupleOf(matrix) == [type |-> "tuple", value |-> matrix]
NoneValue == [type |-> "NoneType", value |-> EmptyMatrix]

\* Lines 346-357.
IsValidPreferenceMatrix(x) ==
    /\ x.type = "ndarray"
    /\ \A v \in DOMAIN x.value : Cardinality(Range(x.value[v])) = m

\* Lines 249 and 251: best_preference = None; the initial matrix is not kept.
InitialBest(initial) == <<>>

\* Lines 206-211: sorted(true_outcome.items(), key=(-score, name)): the keys
\* in ascending order of the pair.
LeaderboardOrder(scores) ==
    LET KeyLess(d, c) == (-scores[d]) < (-scores[c])
                         \/ ((-scores[d]) = (-scores[c]) /\ d < c)
        Place(c) == 1 + Cardinality({d \in DOMAIN scores : KeyLess(d, c)})
    IN  [p \in 1 .. Cardinality(DOMAIN scores) |->
            CHOOSE c \in DOMAIN scores : Place(c) = p]

\* Lines 199-211: the candidates by true score, ties by name.
Leaderboard(pref) == LeaderboardOrder(CallVotingScheme(voting_scheme, pref))

\* Lines 221-226: positions at which the leaderboard of pref and the true one
\* agree.
reconstruct_match(board, pref) ==
    LET simulated_leaderboard == SortedOutcome(CallVotingScheme(voting_scheme, pref))
        len == IF Len(board) < Len(simulated_leaderboard)
               THEN Len(board) ELSE Len(simulated_leaderboard)
    IN  Cardinality({k \in 1 .. len : board[k] = simulated_leaderboard[k]})

\* Lines 213-219: every column a shuffle of the leaderboard.
InitialPreferences(board) == [0 .. (A3Voters - 1) -> Arrangements(board)]

\* A move that writes row j into row i and leaves row j as it was.
OverwriteRow(pref, v, a, b) == [pref EXCEPT ![v][a] = pref[v][b]]

\* Lines 260-266 and 290-296: rows a and b of column v swapped.
SwapRows(pref, v, a, b) ==
    [pref EXCEPT ![v] = [k \in 1 .. m |->
        IF k = a THEN pref[v][b] ELSE IF k = b THEN pref[v][a] ELSE pref[v][k]]]

\* The moves of one step: a voter and two different rows.
Moves == {x \in (0 .. (A3Voters - 1)) \X (1 .. m) \X (1 .. m) : x[2] < x[3]}

\* Lines 246-247: sum(window) / len(window), 1.0 for an empty window.
acceptance_rate(window) ==
    IF Len(window) = 0 THEN <<1, 1>>
    ELSE <<Cardinality({k \in 1 .. Len(window) : window[k]}), Len(window)>>

RatLeq(a, b) == a[1] * b[2] <= b[1] * a[2]

\* deque(maxlen=size).append
DequeAppend(window, size, x) ==
    IF size = 0 THEN <<>>
    ELSE IF Len(window) = size THEN Append(Tail(window), x)
    ELSE Append(window, x)

\* Lines 269-271: a move that does not lower the score is accepted
\* (rand() < exp(d) with d >= 0 always holds); one that lowers it is
\* accepted or not.
WarmUpAccepts(score_diff) == IF score_diff >= 0 THEN {TRUE} ELSE BOOLEAN

\* Lines 300-311: exp(d/temperature) is above 1 for d > 0, 1 for d = 0 and
\* strictly between 0 and 1 for d < 0; it is halved when the rate is above
\* the target.
MainAccepts(score_diff, halved) ==
    IF score_diff > 0 \/ (score_diff = 0 /\ ~halved) THEN {TRUE} ELSE BOOLEAN

\* Line 323: current_score >= best_score * (1 - improvement_threshold)
CloseToBest(score, best, threshold) ==
    score * threshold[2] >= best * (threshold[2] - threshold[1])

InitA3 ==
    /\ analyst = "ATVA3"
    /\ pc = "start"
    /\ voting_scheme = "plurality_voting"
    /\ happiness_measure \in {"KendallTau", "NDCG"}
    /\ risk_measure = "probStrategicVoting"
    /\ given \in A3Inputs
    /\ sim_params \in SimParams
    /\ heap = [r \in Refs |-> Idle]
    /\ maxCollusionSize = None
    /\ exhaustiveSearch = None
    /\ strategyGenerator = None
    /\ LocalsIdle
    /\ GeneratorIdle
    /\ OutcomeIdle
    /\ MeasuresIdle
    /\ analyze_calls = 1
    /\ attempt = 0
    /\ reconstruct_preference = NoneValue
    /\ reconstruct_calls = 0
    /\ ChainIdle

a3frame == <<callvars, genvars, analyze_calls, measurevars, heap, error, mod_ref, options, all_options, i, oi,
             a1vars, a2vars, sim_params>>

resultvars == <<outvars, individual_happiness, strategic_options, risk>>

\* Lines 61-63.
A3_Start ==
    /\ analyst = "ATVA3" /\ pc = "start"
    /\ attempt' = 0
    /\ reconstruct_preference' = NdArray(EmptyMatrix)
    /\ pc' = "while"
    /\ UNCHANGED <<a3frame, resultvars, reconstruct_calls, chainvars>>

\* Lines 64-74 and 197-257: the matrix is not valid; attempt *= 1 and the
\* call of preference_reconstruct up to its first loop.
A3_Reconstruct ==
    /\ analyst = "ATVA3" /\ pc = "while"
    /\ ~IsValidPreferenceMatrix(reconstruct_preference)
    /\ reconstruct_calls < MaxCalls
    /\ attempt' = attempt * 1
    /\ reconstruct_calls' = reconstruct_calls + 1
    /\ \E board \in {Leaderboard(given)} :
         \E initial \in InitialPreferences(board) :
            /\ leaderboard' = board
            /\ best_preference' = InitialBest(initial)
            /\ best_score' = -1
            /\ current_preference' = initial
            /\ current_score' = reconstruct_match(board, initial)
            /\ visited_score' = reconstruct_match(board, initial)
    /\ proposals' = 0
    /\ acceptance_window' = <<>>
    /\ stability_counter' = 0
    /\ phase' = 1
    /\ step' = 0
    /\ pc' = "warmup"
    /\ UNCHANGED <<a3frame, resultvars, reconstruct_preference>>

\* A for loop over range(n) that has run k iterations runs one more.
RangeHasOneMore(n, k) == k <= n

\* for _ in range(n): another iteration follows the k-th.
RangeHas(n, k) == k < n

\* Lines 259-280: one iteration of the first loop.
A3_WarmUp ==
    /\ analyst = "ATVA3" /\ pc = "warmup"
    /\ RangeHas(sim_params.window_size, step)
    /\ proposals' = proposals + 1
    /\ \E move \in Moves :
         \E new_preference \in {SwapRows(current_preference, move[1], move[2], move[3])} :
            \E new_score \in {reconstruct_match(leaderboard, new_preference)} :
               \E accepted \in WarmUpAccepts(new_score - current_score) :
                  /\ current_preference' = IF accepted THEN new_preference
                                           ELSE current_preference
                  /\ current_score' = IF accepted THEN new_score ELSE current_score
                  /\ IF accepted /\ new_score > best_score
                     THEN best_score' = new_score /\ best_preference' = <<new_preference>>
                     ELSE UNCHANGED <<best_score, best_preference>>
                  /\ visited_score' = IF accepted /\ new_score > visited_score
                                      THEN new_score ELSE visited_score
                  /\ acceptance_window' =
                        DequeAppend(acceptance_window, sim_params.window_size, accepted)
    /\ step' = step + 1
    /\ UNCHANGED <<a3frame, resultvars, attempt, reconstruct_preference, reconstruct_calls,
                   leaderboard, stability_counter, phase, pc>>

\* Lines 282-288: after the first loop, the return of (current_preference,
\* stability) when the rate is not above the target, else on to the phases.
A3_WarmUpEnd ==
    /\ analyst = "ATVA3" /\ pc = "warmup"
    /\ ~RangeHas(sim_params.window_size, step)
    /\ IF RatLeq(acceptance_rate(acceptance_window), sim_params.target_acceptance)
       THEN /\ reconstruct_preference' = TupleOf(current_preference)
            /\ pc' = "returned"
       ELSE /\ pc' = "phases"
            /\ UNCHANGED reconstruct_preference
    /\ step' = 0
    /\ UNCHANGED <<a3frame, resultvars, attempt, reconstruct_calls, leaderboard,
                   best_preference, best_score, current_preference, current_score,
                   acceptance_window, stability_counter, phase, visited_score, proposals>>

\* What preference_reconstruct hands back for best_preference.
BestValue(best) == IF best = <<>> THEN NoneValue ELSE NdArray(best[1])

\* Lines 289-340: one iteration of the for loop of a phase.
A3_Step ==
    /\ analyst = "ATVA3" /\ pc = "phases"
    /\ phase <= 3 /\ RangeHas(sim_params.num_simulations, step)
    /\ proposals' = proposals + 1
    /\ \E move \in Moves :
         \E new_preference \in {SwapRows(current_preference, move[1], move[2], move[3])} :
          \E new_score \in {reconstruct_match(leaderboard, new_preference)} :
           \E current_acceptance_rate \in {acceptance_rate(acceptance_window)} :
            \E accepted \in MainAccepts(new_score - current_score,
                  ~RatLeq(current_acceptance_rate, sim_params.target_acceptance)) :
             LET low == RatLeq(current_acceptance_rate, sim_params.target_acceptance)
                 cur == IF accepted THEN new_preference ELSE current_preference
                 score == IF accepted THEN new_score ELSE current_score
                 improved == accepted /\ new_score > best_score
                 bscore == IF improved THEN new_score ELSE best_score
                 best == IF improved THEN <<new_preference>> ELSE best_preference
                 window == DequeAppend(acceptance_window, sim_params.window_size, accepted)
                 full == Len(window) = sim_params.window_size
             IN  /\ current_preference' = cur
                 /\ current_score' = score
                 /\ best_score' = bscore
                 /\ best_preference' = best
                 /\ visited_score' = IF score > visited_score THEN score ELSE visited_score
                 /\ acceptance_window' = window
                 /\ IF full /\ low /\ CloseToBest(score, bscore, sim_params.improvement_threshold)
                    THEN /\ reconstruct_preference' = NdArray(cur)
                         /\ pc' = "returned"
                         /\ UNCHANGED <<phase, step, stability_counter>>
                    ELSE IF full /\ phase = 1 /\ score = Len(leaderboard)
                    THEN /\ phase' = phase + 2
                         /\ step' = 0
                         /\ UNCHANGED <<reconstruct_preference, pc, stability_counter>>
                    ELSE IF full /\ phase = 2 /\ low
                    THEN /\ phase' = phase + 2
                         /\ step' = 0
                         /\ UNCHANGED <<reconstruct_preference, pc, stability_counter>>
                    ELSE IF full /\ phase = 3 /\ stability_counter >= sim_params.stable_window
                    THEN /\ reconstruct_preference' = BestValue(best)
                         /\ pc' = "returned"
                         /\ UNCHANGED <<phase, step, stability_counter>>
                    ELSE /\ stability_counter' =
                               IF full THEN (IF low THEN stability_counter + 1 ELSE 0)
                               ELSE stability_counter
                         /\ step' = step + 1
                         /\ UNCHANGED <<reconstruct_preference, pc, phase>>
    /\ UNCHANGED <<a3frame, resultvars, attempt, reconstruct_calls, leaderboard>>

\* Line 342: the for loop has run out; the next phase.
A3_NextPhase ==
    /\ analyst = "ATVA3" /\ pc = "phases"
    /\ phase <= 3 /\ ~RangeHas(sim_params.num_simulations, step)
    /\ phase' = phase + 1
    /\ step' = 0
    /\ UNCHANGED <<a3frame, resultvars, attempt, reconstruct_preference, reconstruct_calls,
                   leaderboard, best_preference, best_score, current_preference,
                   current_score, acceptance_window, stability_counter, visited_score,
                   proposals, pc>>

\* Line 344: the phases are over.
A3_ReturnBest ==
    /\ analyst = "ATVA3" /\ pc = "phases"
    /\ phase > 3
    /\ reconstruct_preference' = BestValue(best_preference)
    /\ pc' = "returned"
    /\ UNCHANGED <<a3frame, resultvars, attempt, reconstruct_calls, chainvars>>

\* Lines 76-89: back in analyze, the locals of preference_reconstruct are
\* gone; the failure result after more than 3 attempts, else the while
\* condition again.
A3_Check ==
    /\ analyst = "ATVA3" /\ pc = "returned"
    /\ IF attempt > 3
       THEN /\ reconstruct_preference' = NdArray(EmptyMatrix)
            /\ outcome_values' = <<>>
            /\ outcome_keys' = <<>>
            /\ individual_happiness' = [v \in DOMAIN given |-> 0]
            /\ strategic_options' = [k \in 1 .. A3Voters |-> {}]
            /\ risk' = <<0, 1>>
            /\ pc' = "failed"
       ELSE /\ pc' = "while"
            /\ UNCHANGED <<resultvars, reconstruct_preference>>
    /\ leaderboard' = <<>>
    /\ best_preference' = <<>>
    /\ best_score' = -1
    /\ current_preference' = <<>>
    /\ current_score' = 0
    /\ acceptance_window' = <<>>
    /\ stability_counter' = 0
    /\ phase' = 1
    /\ step' = 0
    /\ visited_score' = -1
    /\ proposals' = 0
    /\ UNCHANGED <<a3frame, attempt, reconstruct_calls>>

\* Lines 91-102: the columns of the reconstruction, those that equal a column
\* of the caller's matrix at that column's place, the others in their order
\* at the places left.
RECURSIVE MatchColumns(_, _, _, _)
MatchColumns(pref, col, remaining, temp) ==
    IF col = A3Voters THEN <<remaining, temp>>
    ELSE LET hits == {j \in 1 .. Len(remaining) : remaining[j] = pref[col]}
         IN  IF hits = {} THEN MatchColumns(pref, col + 1, remaining, temp)
             ELSE LET j == CHOOSE x \in hits : \A y \in hits : x <= y
                  IN  MatchColumns(pref, col + 1, RemoveAt(remaining, j),
                                   [temp EXCEPT ![col] = remaining[j]])

RECURSIVE FillColumns(_, _, _)
FillColumns(col, remaining, temp) ==
    IF col = A3Voters THEN temp
    ELSE IF \A k \in 1 .. m : temp[col][k] = 0
         THEN FillColumns(col + 1, Tail(remaining), [temp EXCEPT ![col] = Head(remaining)])
         ELSE FillColumns(col + 1, remaining, temp)

FormatColumns(pref, reconstruction) ==
    LET matched == MatchColumns(pref, 0,
                       [k \in 1 .. A3Voters |-> reconstruction[k - 1]], EmptyMatrix)
    IN  FillColumns(0, matched[1], matched[2])

\* Lines 129-154: the pairs kept for voter v.
A3Options(pref, v, baseline) ==
    LET tried == Range(permutations(pref[v])) \ {pref[v]}
        happiness(option) ==
            CallHappiness(happiness_measure, pref[v],
                          Outcome(voting_scheme, [pref EXCEPT ![v] = option]))
    IN  {<<option, happiness(option)>> : option \in {o \in tried : happiness(o) > baseline[v]}}

\* Lines 64 and 91-170: the matrix is valid; the rest of analyze.
A3_Finish ==
    /\ analyst = "ATVA3" /\ pc = "while"
    /\ IsValidPreferenceMatrix(reconstruct_preference)
    /\ \E formatted \in {FormatColumns(given, reconstruct_preference.value)} :
         \E scores \in {CallVotingScheme(voting_scheme, formatted)} :
           \E levels \in {[v \in DOMAIN formatted |->
                            CallHappiness(happiness_measure, formatted[v],
                                          SortedOutcome(scores))]} :
             \E opts \in {[k \in 1 .. A3Voters |-> A3Options(formatted, k - 1, levels)]} :
                /\ reconstruct_preference' = NdArray(formatted)
                /\ outcome_values' = scores
                /\ outcome_keys' = SortedOutcome(scores)
                /\ individual_happiness' = levels
                /\ strategic_options' = opts
                /\ risk' = probStrategicVoting(levels, opts)
    /\ pc' = "done"
    /\ UNCHANGED <<a3frame, attempt, reconstruct_calls, chainvars>>

NextA3 ==
    \/ A3_Start
    \/ A3_Reconstruct
    \/ A3_WarmUp
    \/ A3_WarmUpEnd
    \/ A3_Step
    \/ A3_NextPhase
    \/ A3_ReturnBest
    \/ A3_Check
    \/ A3_Finish

SpecA3 == InitA3 /\ [][NextA3]_vars

\* The steps of preference_reconstruct, and the position in it.
NextChain == A3_WarmUp \/ A3_WarmUpEnd \/ A3_Step \/ A3_NextPhase \/ A3_ReturnBest

chainpos == <<pc, step, phase, proposals>>

\* The calls whose termination is checked: one matrix, one happiness measure
\* (neither is read by preference_reconstruct beyond the leaderboard).
InitA3Fair == InitA3 /\ happiness_measure = "KendallTau" /\ given[0] = <<1, 2, 3>>

\* The interpreter goes on executing a call of preference_reconstruct that
\* has a next statement.
SpecA3Fair == InitA3Fair /\ [][NextA3]_vars /\ WF_chainpos(NextChain)

----------------------------------------------------------------------------
(* Two calls of analyze on one ATVA2 object.  The object keeps              *)
(* self.all_options (ATVA2.py:43) from one call to the next.                *)

\* Calls of analyze made on the object.
MaxAnalyzeCalls == 2

\* The matrices the calls are made with, by the column of voter 0.
ReuseInputs ==
    {[v \in Voters |-> IF v = 0 THEN first ELSE <<2, 1, 3>>] :
        first \in {<<1, 2, 3>>, <<3, 2, 1>>, <<2, 3, 1>>}}

InitReuse ==
    /\ analyst = "ATVA2"
    /\ pc = "start"
    /\ voting_scheme \in VotingSchemes
    /\ happiness_measure \in HappinessMeasures
    /\ risk_measure \in RiskMeasures
    /\ given \in ReuseInputs
    /\ heap = [r \in Refs |-> IF r = "voter_preference" THEN given ELSE Idle]
    /\ maxCollusionSize = None
    /\ exhaustiveSearch = None
    /\ strategyGenerator = "defaultStrategyGenerator"
    /\ LocalsIdle
    /\ GeneratorIdle
    /\ OutcomeIdle
    /\ MeasuresIdle
    /\ A3Idle
    /\ analyze_calls = 1

\* The caller calls analyze once more on the same object after a call has
\* ended, with a matrix of its choice: the locals are new, self.all_options
\* is what the earlier call left (lines 43 and 154).
A2_AnalyzeAgain ==
    /\ analyst = "ATVA2" /\ pc \in {"done", "error"}
    /\ analyze_calls < MaxAnalyzeCalls
    /\ analyze_calls' = analyze_calls + 1
    /\ given' \in ReuseInputs
    /\ heap' = [r \in Refs |-> IF r = "voter_preference" THEN given' ELSE Idle]
    /\ pc' = "start"
    /\ error' = None
    /\ individual_happiness' = <<>>
    /\ i' = 0
    /\ oi' = 1
    /\ mod_ref' = None
    /\ options' = {}
    /\ strategic_options' = <<>>
    /\ risk' = <<>>
    /\ param_ref' = None
    /\ excluded_voter' = <<>>
    /\ excluded_voter_preference' = <<>>
    /\ excluded_voter_original_hapiness' = <<>>
    /\ is_countered' = FALSE
    /\ last' = NothingTried
    /\ top' = NoResults
    /\ fm' = 0
    /\ strategic_option' = None
    /\ todo' = {}
    /\ counter_voting_risks' = <<>>
    /\ UNCHANGED <<analyst, voting_scheme, happiness_measure, risk_measure,
                   maxCollusionSize, exhaustiveSearch, strategyGenerator, genvars, outvars,
                   a3vars, measurevars, all_options, a1vars>>

NextReuse ==
    \/ A2_Start
    \/ A2_SkipExcluded
    \/ A2_TryOption
    \/ A2_Return
    \/ A2_Nested
    \/ A2_NextVoter
    \/ A2_Finish
    \/ A2_AnalyzeAgain

SpecReuse == InitReuse /\ [][NextReuse]_vars

----------------------------------------------------------------------------
(* ATVA1.analyze with the sampling generator *)

\* ATVA1 constructed with createNDistinctPermutations as its generator.
SampledInputs ==
    {[v \in Voters |-> IF v = 0 THEN <<1, 2, 3>> ELSE IF v = 1 THEN <<2, 3, 1>> ELSE <<3, 2, 1>>],
     [v \in Voters |-> IF v = 0 THEN <<1, 3, 2>> ELSE IF v = 1 THEN <<2, 3, 1>> ELSE <<1, 2, 3>>]}

InitSampled ==
    /\ analyst = "ATVA1"
    /\ voting_scheme = "plurality_voting"
    /\ happiness_measure = "KendallTau"
    /\ risk_measure = "probStrategicVoting"
    /\ given \in SampledInputs
    /\ heap = [r \in Refs |-> IF r = "voter_preference" THEN given ELSE Idle]
    /\ maxCollusionSize \in 1 .. MaxCollusion
    /\ exhaustiveSearch \in BOOLEAN
    /\ strategyGenerator = "createNDistinctPermutations"
    /\ pc = "start"
    /\ LocalsIdle
    /\ GeneratorIdle
    /\ OutcomeIdle
    /\ MeasuresIdle
    /\ A3Idle
    /\ analyze_calls = 1

NextSampled == A1_Baseline \/ A1_StartCoalition \/ A1_Evaluate \/ A1_Return

SpecSampled == InitSampled /\ [][NextSampled]_vars

----------------------------------------------------------------------------
(* The risk measures of risk_measure.py, called as BTVA.analyze calls its  *)
(* risk measure (BTVA.py:104-109): with the caller's matrix, the happiness *)
(* levels and, per voter, the set of every (option, happiness) pair tried. *)
(* A risk is a rational <<numerator, denominator>>; a score of             *)
(* lines 66 and 119 is in hundredths.                                      *)

RiskUnit == 100

AllRiskMeasures ==
    {"FlipRewardRisk", "JointFlipRewardRisk", "WinnerChangeRisk", "probStrategicVoting"}

\* The measures whose results the scores are tabulated for.
RiskHappiness == {"KendallTau", "get_happiness"}

\* The happiness gain as a number of thirds: KendallTau is c/3 for m = 3 and
\* the model keeps c, get_happiness is 0 or 1.
Thirds(measure, delta_happ) == IF measure = "KendallTau" THEN delta_happ ELSE 3 * delta_happ

\* inversion_ranking_distance before the division by max_inversions: the
\* pairs of option_pref that stand in the other order in base_pref.
inversions(base_pref, option_pref) ==
    LET current_positions == [k \in DOMAIN option_pref |-> IndexOf(base_pref, option_pref[k])]
    IN  Cardinality({x \in (DOMAIN option_pref) \X (DOMAIN option_pref) :
                        x[1] < x[2] /\ current_positions[x[1]] > current_positions[x[2]]})

\* 100 * tanh(delta_happ / log(norm_dist ** (p - 1) + 1)), rounded, for
\* p = 1.3, delta_happ = row/3 and norm_dist = column/3.
TanhScore == <<  <<55, 48, 45>>,  <<84, 78, 75>>,  <<95, 92, 89>>  >>

\* score of lines 65-66 and 118-119 for one improving option of voter v.
score(pref, v, option, baseline) ==
    TanhScore[Thirds(happiness_measure, Abs(option[2] - baseline))][inversions(pref[v], option[1])]

\* max of a non-empty set of integers.
MaxOf(S) == CHOOSE x \in S : \A y \in S : y <= x

\* max of a non-empty list of rationals.
RatMaxOf(s) == CHOOSE x \in Range(s) : \A y \in Range(s) : y[1] * x[2] <= x[1] * y[2]

\* Line 104: "if not options".
NoOptions(opts, good) == opts = {}

\* min(results.items(), key=lambda x: (-x[1], x[0]))[0]
Winner(results) ==
    CHOOSE c \in DOMAIN results :
        \A d \in DOMAIN results :
            results[c] > results[d] \/ (results[c] = results[d] /\ c <= d)

\* Lines 124-142 of JointFlipRewardRisk: the largest probability of a
\* scenario in which somebody votes strategically, over RiskUnit ^ n.
ScenarioProb(risks, scenario) ==
    LET factor(k) ==
            IF risks[k][1] = 0 THEN RiskUnit
            ELSE IF scenario[k] = 1 THEN risks[k][1] ELSE RiskUnit - risks[k][1]
        RECURSIVE prod(_)
        prod(k) == IF k = 0 THEN 1 ELSE factor(k) * prod(k - 1)
    IN  prod(Len(risks))

RECURSIVE Power(_, _)
Power(b, e) == IF e = 0 THEN 1 ELSE b * Power(b, e - 1)

JointRisk(risks) ==
    LET scenarios == {sc \in [1 .. Len(risks) -> {0, 1}] : \E k \in 1 .. Len(risks) : sc[k] = 1}
    IN  <<MaxOf({0} \cup {ScenarioProb(risks, sc) : sc \in scenarios}),
          Power(RiskUnit, Len(risks))>>

InitRisk ==
    /\ analyst = "risk_measure"
    /\ pc = "start"
    /\ voting_scheme \in VotingSchemes
    /\ happiness_measure \in RiskHappiness
    /\ risk_measure \in AllRiskMeasures
    /\ given \in [Voters -> Rankings]
    /\ maxCollusionSize = None
    /\ exhaustiveSearch = None
    /\ strategyGenerator = None
    /\ heap = [r \in Refs |-> IF r = "voter_preference" THEN given ELSE Idle]
    /\ LocalsIdle
    /\ GeneratorIdle
    /\ OutcomeIdle
    /\ MeasuresIdle
    /\ A3Idle
    /\ analyze_calls = 1

\* What the risk measures never write.
riskframe == <<callvars, genvars, outvars, a3vars, analyze_calls, heap, all_options, oi,
               mod_ref, options, a1vars, a2vars, w_preferences, w_outcome,
               w_preferenceWeights, w_distanceWeights, weights, result>>

\* BTVA.py:51-109: the arguments analyze hands to its risk measure, and the
\* lines of the measure before its loop over the voters (risks = [(None,
\* 0.0)] at line 50, individual_risks = [] at 102, risks = [] at 224,
\* count = 0.0 at 187).
Risk_Enter ==
    /\ analyst = "risk_measure" /\ pc = "start"
    /\ individual_happiness' = Baseline(given)
    /\ strategic_options' =
           [k \in 1 .. NumVoters |->
               {<<r, CallHappiness(happiness_measure, given[k - 1],
                                   Outcome(voting_scheme, [given EXCEPT ![k - 1] = r]))>> :
                   r \in Rankings}]
    /\ individual_risks' = IF risk_measure = "FlipRewardRisk" THEN << <<0, RiskUnit>> >> ELSE <<>>
    /\ count' = 0
    /\ i' = 0
    /\ pc' = "voters"
    /\ UNCHANGED <<riskframe, error, risk>>

\* One iteration of the measure's loop over strategic_options, for voter i.
Risk_Voter ==
    /\ analyst = "risk_measure" /\ pc = "voters" /\ i < NumVoters
    /\ LET opts == strategic_options[i + 1]
           baseline == individual_happiness[i]
           good == {o \in opts : ~(o[2] <= baseline)}
           scores == {score(given, i, o, baseline) : o \in good}
           true_winner == Winner(CallVotingScheme(voting_scheme, given))
           successful ==
               {o \in good :
                   Winner(CallVotingScheme(voting_scheme, [given EXCEPT ![i] = o[1]]))
                       # true_winner}
       IN  CASE risk_measure = "FlipRewardRisk" ->
                  /\ individual_risks' =
                         IF opts = {} THEN individual_risks
                         ELSE Append(individual_risks, <<MaxOf({0} \cup scores), RiskUnit>>)
                  /\ UNCHANGED <<count, error, pc>>
                  /\ i' = i + 1
             [] risk_measure = "JointFlipRewardRisk" ->
                  IF NoOptions(opts, good)
                  THEN /\ individual_risks' = Append(individual_risks, <<0, RiskUnit>>)
                       /\ i' = i + 1
                       /\ UNCHANGED <<count, error, pc>>
                  ELSE IF scores = {}
                       THEN /\ pc' = "error"
                            /\ error' = "ValueError"
                            /\ UNCHANGED <<individual_risks, count, i>>
                       ELSE /\ individual_risks' =
                                   Append(individual_risks, <<MaxOf(scores), RiskUnit>>)
                            /\ i' = i + 1
                            /\ UNCHANGED <<count, error, pc>>
             [] risk_measure = "WinnerChangeRisk" ->
                  /\ individual_risks' =
                         Append(individual_risks,
                                IF Cardinality(good) > 0
                                THEN <<Cardinality(successful), Cardinality(good)>>
                                ELSE <<0, 1>>)
                  /\ i' = i + 1
                  /\ UNCHANGED <<count, error, pc>>
             [] risk_measure = "probStrategicVoting" ->
                  /\ count' = IF good # {} THEN count + 1 ELSE count
                  /\ i' = i + 1
                  /\ UNCHANGED <<individual_risks, error, pc>>
    /\ UNCHANGED <<riskframe, individual_happiness, strategic_options, risk>>

\* The lines after the loop: the value returned.
Risk_Return ==
    /\ analyst = "risk_measure" /\ pc = "voters" /\ i = NumVoters
    /\ risk' = CASE risk_measure = "FlipRewardRisk" -> RatMaxOf(individual_risks)
                 [] risk_measure = "JointFlipRewardRisk" -> JointRisk(individual_risks)
                 [] risk_measure = "WinnerChangeRisk" -> RatMaxOf(individual_risks)
                 [] risk_measure = "probStrategicVoting" -> <<count, NumVoters>>
    /\ pc' = "done"
    /\ UNCHANGED <<riskframe, error, individual_happiness, strategic_options, i,
                   individual_risks, count>>

NextRisk == Risk_Enter \/ Risk_Voter \/ Risk_Return

SpecRisk == InitRisk /\ [][NextRisk]_vars

----------------------------------------------------------------------------
(* The happiness measures called on their own, with the weight vectors a   *)
(* caller can pass.  A result is a rational <<numerator, denominator>>.    *)

\* Longest ranking the measures are called with.
MaxCandidates == 4

\* Longest ranking for which weight vectors are passed.
WeightedCandidates == 3

\* The rankings of candidates 1 .. n.
RankingsOf(n) == {r \in [1 .. n -> 1 .. n] : \A a, b \in 1 .. n : r[a] = r[b] => a = b}

\* An Optional weight list for a ranking of n candidates: None, or a list of
\* at most n weights.
WeightArgs(n) ==
    {<<>>} \cup {<<w>> : w \in UNION {[1 .. len -> {0, 1}] : len \in 0 .. n}}

\* x + [0] * paddingAmount
PadZeros(x, paddingAmount) == x \o [k \in 1 .. paddingAmount |-> 0]

Ones(n) == [k \in 1 .. n |-> 1]

\* [1] + [0] * (n - 1)
FirstOnly(n) == [k \in 1 .. n |-> IF k = 1 THEN 1 ELSE 0]

\* The local preferenceWeights after lines 52-64 (NDCG), 94-99 (KendallTau),
\* 165-166 (get_happiness).  In NDCG a short distanceWeights pads
\* preferenceWeights a second time (line 64).
PaddedPreferenceWeights(measure, n, pw, dw) ==
    CASE measure = "NDCG" ->
            LET first == IF pw = <<>>
                         THEN [k \in 1 .. n |-> IF k <= (n + 1) \div 2 THEN 1 ELSE 0]
                         ELSE IF Len(pw[1]) < n THEN PadZeros(pw[1], n - Len(pw[1]))
                         ELSE pw[1]
            IN  IF dw # <<>> /\ Len(dw[1]) < n
                THEN PadZeros(first, n - Len(dw[1]))
                ELSE first
      [] measure = "KendallTau" ->
            IF pw = <<>> THEN Ones(n)
            ELSE IF Len(pw[1]) < n THEN PadZeros(pw[1], n - Len(pw[1]))
            ELSE pw[1]
      [] measure = "get_happiness" ->
            IF pw = <<>> \/ pw[1] = <<>> THEN FirstOnly(n) ELSE pw[1]

\* The local distanceWeights after the same lines.  KendallTau takes the
\* argument as "_" and never reads it.
PaddedDistanceWeights(measure, n, dw) ==
    CASE measure = "NDCG" -> IF dw = <<>> THEN Ones(n) ELSE dw[1]
      [] measure = "KendallTau" -> IF dw = <<>> THEN <<>> ELSE dw[1]
      [] measure = "get_happiness" ->
            IF dw = <<>> \/ dw[1] = <<>> THEN FirstOnly(n) ELSE dw[1]

\* createRanking raises IndexError when distanceWeights[distance - 1] is out
\* of range: an empty list, or distance above its length.
createRankingError(preferences, outcome, preferenceWeights, distanceWeights) ==
    LET NonZeroWeightsCount ==
            Cardinality({k \in DOMAIN preferenceWeights : preferenceWeights[k] > 0})
        distance(k) ==
            LET d == NonZeroWeightsCount - (IndexOf(outcome, preferences[k]) - 1)
            IN  IF d > 0 THEN d ELSE 0
    IN  IF \E k \in 1 .. Len(preferences) :
               \/ Len(distanceWeights) = 0
               \/ distance(k) > Len(distanceWeights)
        THEN "IndexError" ELSE None

\* Lines 66-84 of NDCG, 101-113 of KendallTau, 171-184 of get_happiness:
\* the exception raised, or None.
ScoreError(measure, preferences, outcome, pw, dw) ==
    CASE measure = "NDCG" ->
            IF createRankingError(preferences, outcome, pw, dw) # None
            THEN createRankingError(preferences, outcome, pw, dw)
            ELSE createRankingError(outcome, outcome, pw, dw)
      [] measure = "KendallTau" ->
            IF SumTo(pw, Len(pw)) = 0 THEN "ZeroDivisionError" ELSE None
      [] measure = "get_happiness" -> None

\* The value returned when nothing is raised.
Score(measure, preferences, outcome, pw, dw) ==
    CASE measure = "NDCG" ->
            LET dcg == DCG(createRanking(preferences, outcome, pw, dw))
                idcg == DCG(createRanking(outcome, outcome, pw, dw))
            IN  IF idcg = 0 THEN <<0, 1>> ELSE <<dcg, idcg>>
      [] measure = "KendallTau" ->
            LET concordantPairs ==
                    SumTo([k \in 1 .. Len(preferences) |->
                              IF preferences[k] = outcome[k] THEN pw[k] ELSE 0],
                          Len(preferences))
            IN  <<concordantPairs, SumTo(pw, Len(pw))>>
      [] measure = "get_happiness" ->
            <<SumTo([k \in 1 .. Len(preferences) |->
                        pw[k] * dw[Abs(k - IndexOf(outcome, preferences[k])) + 1]],
                    Len(preferences)), 1>>

InitMeasure ==
    /\ analyst = "happiness_measure"
    /\ pc = "start"
    /\ happiness_measure \in HappinessMeasures
    /\ \E n \in 2 .. MaxCandidates :
          /\ w_preferences \in RankingsOf(n)
          /\ w_outcome \in RankingsOf(n)
          /\ w_preferenceWeights \in
                 (IF n <= WeightedCandidates /\ happiness_measure # "get_happiness"
                  THEN WeightArgs(n) ELSE {<<>>})
          /\ w_distanceWeights \in
                 (IF n <= WeightedCandidates /\ happiness_measure # "get_happiness"
                  THEN WeightArgs(n) ELSE {<<>>})
    /\ weights = None
    /\ result = None
    /\ individual_risks = <<>>
    /\ count = 0
    /\ voting_scheme = None
    /\ risk_measure = None
    /\ given = None
    /\ maxCollusionSize = None
    /\ exhaustiveSearch = None
    /\ strategyGenerator = None
    /\ heap = [r \in Refs |-> Idle]
    /\ LocalsIdle
    /\ GeneratorIdle
    /\ OutcomeIdle
    /\ A3Idle
    /\ analyze_calls = 1

\* What the happiness measures never write.
measureframe == <<callvars, genvars, outvars, a3vars, analyze_calls, heap, loopvars,
                  a1vars, a2vars, individual_risks, count, w_preferences, w_outcome,
                  w_preferenceWeights, w_distanceWeights>>

\* The defaults and the padding of the weights.
Measure_Weights ==
    /\ analyst = "happiness_measure" /\ pc = "start"
    /\ weights' =
           [preferenceWeights |->
                PaddedPreferenceWeights(happiness_measure, Len(w_preferences),
                                        w_preferenceWeights, w_distanceWeights),
            distanceWeights |->
                PaddedDistanceWeights(happiness_measure, Len(w_preferences),
                                      w_distanceWeights)]
    /\ pc' = "weights"
    /\ UNCHANGED <<measureframe, error, result>>

\* The score, or the exception its computation raises.
Measure_Score ==
    /\ analyst = "happiness_measure" /\ pc = "weights"
    /\ LET raised == ScoreError(happiness_measure, w_preferences, w_outcome,
                                weights.preferenceWeights, weights.distanceWeights)
       IN  IF raised # None
           THEN /\ error' = raised
                /\ pc' = "error"
                /\ UNCHANGED result
           ELSE /\ result' = Score(happiness_measure, w_preferences, w_outcome,
                                   weights.preferenceWeights, weights.distanceWeights)
                /\ pc' = "done"
                /\ UNCHANGED error
    /\ UNCHANGED <<measureframe, weights>>

NextMeasure == Measure_Weights \/ Measure_Score

SpecMeasure == InitMeasure /\ [][NextMeasure]_vars

----------------------------------------------------------------------------
(* Properties.  Expected values are recomputed from the caller's matrix    *)
(* (given), the voting scheme and the happiness measure, not read from the *)
(* variables the analysts compute.                                         *)

\* Matrix pref with voter v's column replaced by ranking r.
WithBallot(pref, v, r) == [pref EXCEPT ![v] = r]

\* Happiness of a voter with ranking sincere under the outcome of pref.
HappinessUnder(sincere, pref) ==
    CallHappiness(happiness_measure, sincere, Outcome(voting_scheme, pref))

\* Every (ranking, happiness) pair of voter v on matrix pref.
EveryOption(pref, v) ==
    {<<r, HappinessUnder(pref[v], WithBallot(pref, v, r))>> : r \in Rankings}

\* Voter v's rankings other than the sincere one, in generation order.
Alternatives(v) == ListRemove(permutations(given[v]), given[v]).list

\* The caller's matrix with the members of cand voting joint.
JointMatrix(cand, joint) ==
    [v \in Voters |-> IF v \in Range(cand) THEN joint[IndexOf(cand, v)] ELSE given[v]]

\* Every member of cand is strictly happier under joint than sincerely.
AllImprove(cand, joint) ==
    \E base \in {Baseline(given)}, out \in {Outcome(voting_scheme, JointMatrix(cand, joint))} :
        \A k \in DOMAIN cand :
            CallHappiness(happiness_measure, given[cand[k]], out) > base[cand[k]]

\* The Cartesian product of the members' alternatives, member 0 fastest.
RECURSIVE Product(_)
Product(cand) ==
    IF Len(cand) = 0 THEN << <<>> >>
    ELSE LET own == Alternatives(Head(cand))
             rest == Product(Tail(cand))
         IN  [k \in 1 .. (Len(own) * Len(rest)) |->
                 <<own[((k - 1) % Len(own)) + 1]>> \o rest[((k - 1) \div Len(own)) + 1]]

\* The single-step search has returned to analyze.
SingleStepDone == analyst \in {"BTVA", "ATVA2"} /\ pc = "done"

\* A counter search is running or has just returned.
InCounterSearch ==
    analyst = "ATVA2" /\ pc \in {"single", "step2"} /\ excluded_voter # <<>>

C3_ExhaustiveOdometer ==
    (analyst = "ATVA1" /\ exhaustiveSearch = TRUE) =>
        \A f \in DOMAIN finished :
            /\ finished[f].how = "exhausted"
            /\ finished[f].evaluated = Product(finished[f].coalition)

\* C4: in first-found mode nothing is evaluated for a coalition after its
\* first accepted assignment, and a coalition has at most one recorded entry.
C4_FirstFoundStops ==
    (analyst = "ATVA1" /\ exhaustiveSearch = FALSE) =>
        /\ \A a, b \in DOMAIN collusion_options :
               a # b => collusion_options[a][1] # collusion_options[b][1]
        /\ counter >= 1 =>
               \E cand \in {collusion_permutations[counter]} :
                   /\ \A k \in 1 .. (Len(evaluated) - 1) : ~AllImprove(cand, evaluated[k])
                   /\ (Len(evaluated) >= 1 /\ AllImprove(cand, evaluated[Len(evaluated)]))
                          => pc # "eval"
        /\ \A f \in DOMAIN finished :
               finished[f].how = "first-found" =>
                   \E seen \in {finished[f].evaluated} :
                       /\ AllImprove(finished[f].coalition, seen[Len(seen)])
                       /\ Cardinality({e \in DOMAIN collusion_options :
                              collusion_options[e][1] = finished[f].coalition}) = 1

\* The first coalition was left at its first accepted assignment, found
\* after a rejected one, and the next coalition is being searched.
C4_Witness ==
    /\ analyst = "ATVA1" /\ exhaustiveSearch = FALSE
    /\ pc = "eval" /\ counter = 2
    /\ Len(finished) = 1
    /\ finished[1].how = "first-found"
    /\ Len(finished[1].evaluated) >= 2
    /\ Len(finished[1].evaluated) < Len(Product(finished[1].coalition))

\* C5 (as stated): when ATVA1 stops, every non-empty set of voters of size
\* 1 .. maxCollusionSize has been processed exactly once, each of them
\* enumerated to completion.
C5_EveryCoalitionOnce ==
    (analyst = "ATVA1" /\ pc \in {"done", "error"}) =>
        \A S \in SUBSET Voters :
            (1 <= Cardinality(S) /\ Cardinality(S) <= maxCollusionSize) =>
                /\ Cardinality({f \in DOMAIN finished :
                       Range(finished[f].coalition) = S}) = 1
                /\ \A f \in DOMAIN finished :
                       Range(finished[f].coalition) = S =>
                           finished[f].how \in {"exhausted", "first-found"}

\* The first mover of the running counter search, the voter and ranking it
\* tried last, and what the code should make of it.
CounterCase ==
    LET first == excluded_voter[1]
        j == last.voter[1]
        adj == WithBallot(given, first, strategic_option[1])
        out == Outcome(voting_scheme, WithBallot(adj, j, last.option))
    IN  [first |-> first, j |-> j,
         first_happiness |-> CallHappiness(happiness_measure, given[first], out),
         first_baseline |-> Baseline(given)[first],
         j_happiness |-> CallHappiness(happiness_measure, adj[j], out),
         j_baseline |-> Baseline(adj)[j]]

\* C6: in the counter search a move is flagged as a counter only if it
\* leaves the first mover's happiness at or below the first mover's
\* baseline; a move that benefits its voter while the first mover stays
\* strictly above the baseline is not flagged and is recorded with its
\* voter's baseline happiness.
C6_CounterClassification ==
    (InCounterSearch /\ last.voter # <<>>) =>
        \E c \in {CounterCase} :
            /\ last.flagged => c.first_happiness <= c.first_baseline
            /\ last.flagged => is_countered
            /\ (c.j_happiness > c.j_baseline /\ c.first_happiness > c.first_baseline) =>
                   /\ ~last.flagged
                   /\ last.recorded = c.j_baseline
                   /\ <<last.option, c.j_baseline>> \in
                          (IF i = c.j THEN options ELSE strategic_options[c.j + 1])

\* Another voter's move benefits that voter, leaves the first mover above
\* the baseline and is not flagged, after an earlier move was flagged.
C6_Witness ==
    /\ InCounterSearch /\ last.voter # <<>>
    /\ last.voter # excluded_voter
    /\ CounterCase.j_happiness > CounterCase.j_baseline
    /\ CounterCase.first_happiness > CounterCase.first_baseline
    /\ ~last.flagged
    /\ is_countered

\* C7 (as stated): the counter search for first mover i tries no ballot of
\* voter i, for every i including voter 0; voter i's own option set in the
\* counter search is empty.
C7_FirstMoverExcluded ==
    InCounterSearch =>
        /\ last.voter # excluded_voter
        /\ Len(strategic_options) > excluded_voter[1] =>
               strategic_options[excluded_voter[1] + 1] = {}

\* C8: a counter search is run only for a first move whose happiness is
\* strictly greater than the first mover's baseline; if no voter has such a
\* move, counter_voting_risks is empty and the risk returned is the risk of
\* the single-step analysis.
C8_CounterSearchOnlyIfBeneficial ==
    analyst = "ATVA2" =>
        /\ excluded_voter # <<>> =>
               /\ strategic_option[2] =
                      HappinessUnder(given[excluded_voter[1]],
                          WithBallot(given, excluded_voter[1], strategic_option[1]))
               /\ strategic_option[2] > Baseline(given)[excluded_voter[1]]
        /\ (pc = "done" /\ \A v \in Voters : \A o \in EveryOption(given, v) :
                               o[2] <= Baseline(given)[v]) =>
               /\ counter_voting_risks = <<>>
               /\ excluded_voter = <<>>
               /\ risk = probStrategicVoting(Baseline(given),
                             [k \in 1 .. NumVoters |-> EveryOption(given, k - 1)])

\* ATVA2 has returned without a counter search, although some first move
\* left its voter exactly at the baseline with a changed ballot.
C8_Witness ==
    /\ analyst = "ATVA2" /\ pc = "done"
    /\ counter_voting_risks = <<>>
    /\ risk = top.risk
    /\ \A v \in Voters : \A o \in strategic_options[v + 1] : o[2] <= individual_happiness[v]
    /\ \E v \in Voters : \E o \in strategic_options[v + 1] :
           o[1] # given[v] /\ o[2] = individual_happiness[v]

\* The matrix the running single-step search was called on.
FrameMatrix ==
    IF excluded_voter = <<>> THEN given
    ELSE WithBallot(given, excluded_voter[1], strategic_option[1])

\* C9: the caller's matrix is never written; the matrix handed to the
\* voting rule equals the matrix the search was called on outside the
\* column of the voter that was modified (BTVA, ATVA2) or outside the
\* columns of the coalition (ATVA1).
C9_CopyOnWrite ==
    /\ heap["voter_preference"] = given
    /\ (analyst = "BTVA" /\ pc = "search" /\ last.voter # <<>>) =>
           /\ \A v \in Voters \ {last.voter[1]} : heap[mod_ref][v] = given[v]
           /\ heap[mod_ref][last.voter[1]] = last.option
    /\ (analyst = "ATVA1" /\ pc = "eval") =>
           \A v \in Voters \ Range(collusion_permutations[counter]) :
               heap[mod_ref][v] = given[v]
    /\ (analyst = "ATVA2" /\ pc = "single") =>
           /\ heap[param_ref] = FrameMatrix
           /\ last.voter # <<>> =>
                  /\ \A v \in Voters \ {last.voter[1]} : heap[mod_ref][v] = FrameMatrix[v]
                  /\ heap[mod_ref][last.voter[1]] = last.option

\* BTVA has modified a second voter's column in a copy: the copy differs
\* from the caller's matrix in that column only.
C9_Witness ==
    /\ analyst = "BTVA" /\ pc = "search"
    /\ last.voter = <<1>>
    /\ heap[mod_ref][1] # given[1]
    /\ heap[mod_ref][0] = given[0]
    /\ heap["voter_preference"] = given

\* C10 (as stated): the default strategy generator returns every permutation
\* of the ranking except the original: m! - 1 rankings, none of them equal
\* to the input.
C10_OriginalLeftOut ==
    (analyst \in {"BTVA", "ATVA2"} /\ pc # "start") =>
        /\ Len(all_options) = Factorial(m) - 1
        /\ given[0] \notin Range(all_options)

\* C10 (amended): the default strategy generator returns every permutation
\* of the ranking, the original included as the first one: m! rankings.
\* ATVA1 removes the original afterwards, which leaves m! - 1.
C10_EveryPermutation ==
    /\ (analyst \in {"BTVA", "ATVA2"} /\ pc # "start") =>
           /\ Len(all_options) = Factorial(m)
           /\ Range(all_options) = Rankings
           /\ all_options[1] = given[0]
    /\ (analyst = "ATVA1" /\ pc \in {"coalition", "eval"}) =>
           \A v \in Voters :
               /\ Len(strategic_options[v + 1]) = Factorial(m) - 1
               /\ Range(strategic_options[v + 1]) = Rankings \ {given[v]}

\* BTVA tries the sincere ranking of voter 0 as that voter's first option.
C10_Witness ==
    /\ analyst = "BTVA" /\ pc = "search"
    /\ last.voter = <<0>>
    /\ last.option = given[0]
    /\ Len(all_options) = Factorial(m)


----------------------------------------------------------------------------
(* createNDistinctPermutations                                             *)

\* The call has returned after running its loop.
LoopDone == analyst = "createNDistinctPermutations" /\ pc = "done" /\ middle # <<>>

\* One iteration that found a ranking not seen before.
FoundNew == pc = "loop" /\ uniqueMiddles' # uniqueMiddles

\* C11: whatever shuffle returns, the call returns, without error; its loop
\* never runs past maxN collected rankings or 15 failures in a row, it has
\* reached one of the two when it ends, and an iteration that finds a new
\* ranking sets the count of failures in a row back to 0.
C11_Terminates ==
    /\ <>(pc = "done")
    /\ [](analyst = "createNDistinctPermutations" =>
            /\ error = None
            /\ successiveFailedAttempts <= MaxSuccessiveFailures
            /\ Cardinality(uniqueMiddles) <= (IF g_maxN > 0 THEN g_maxN ELSE 0)
            /\ LoopDone => \/ Cardinality(uniqueMiddles) = g_maxN
                           \/ g_maxN <= 0
                           \/ successiveFailedAttempts = MaxSuccessiveFailures)
    /\ [][FoundNew => successiveFailedAttempts' = 0]_vars

\* A call that ended on 15 failures in a row after the count was set back.
C11_Witness ==
    /\ LoopDone
    /\ successiveFailedAttempts = MaxSuccessiveFailures
    /\ Cardinality(uniqueMiddles) >= 2
    /\ Cardinality(uniqueMiddles) < g_maxN
    /\ countAttempts > MaxSuccessiveFailures + Cardinality(uniqueMiddles)


\* The number of rankings the call returned.
Returned == Cardinality(permu)

\* The positions of the ranking outside and inside the range.
Outside(r, len) == {k \in 1 .. len : k <= r[1] \/ k > r[2]}
Inside(r, len) == {k \in 1 .. len : k > r[1] /\ k <= r[2]}

\* C12 as stated: at most maxN rankings and at most m! - 1 of them.
C12_AtMostFactorialMinusOne ==
    (analyst = "createNDistinctPermutations" /\ pc = "done") =>
        /\ Returned <= g_maxN
        /\ Returned <= Factorial(Len(g_input)) - 1

\* C12, amended: the call returns at most maxN rankings and at most r!
\* rankings, r the number of positions it permutes (m! for the whole
\* ranking): the input's own order is one of the rankings it can return.
C12_AtMostFactorial ==
    (analyst = "createNDistinctPermutations" /\ pc = "done") =>
        /\ Returned <= g_maxN
        /\ Returned <= Factorial(RangeLen(permuteRange))
        /\ Returned <= Factorial(Len(g_input))

\* A call that returned all m! rankings, the input among them.
C12_Witness ==
    /\ LoopDone
    /\ Returned = Factorial(Len(g_input))
    /\ g_input \in permu
    /\ Returned <= g_maxN

\* C13 as stated: at most 15 + maxN attempts.
C13_WithinFifteenPlusN ==
    LoopDone => countAttempts <= MaxSuccessiveFailures + g_maxN

\* C13, amended: the call makes at most 15 * k + 1 attempts, k <= maxN the
\* number of rankings it returns, and at most 15 * maxN - 14 when it returns
\* maxN of them: every ranking but the first can cost 15 attempts, and the
\* last 15 failures come on top.
C13_FifteenPerRanking ==
    (analyst = "createNDistinctPermutations" /\ pc = "done") =>
        /\ Returned <= g_maxN
        /\ countAttempts <= MaxSuccessiveFailures * Returned + 1
        /\ (Returned = g_maxN /\ g_maxN > 0) =>
              countAttempts <= MaxSuccessiveFailures * g_maxN - (MaxSuccessiveFailures - 1)

\* A call that needed more than 15 + maxN attempts.
C13_Witness ==
    /\ LoopDone
    /\ countAttempts > MaxSuccessiveFailures + g_maxN
    /\ Returned = g_maxN

\* The range given to the call lies inside the ranking.
RangeInside == permuteRange # <<>> /\ permuteRange[1] <= permuteRange[2]
                  /\ permuteRange[2] <= Len(g_input)

\* C14: with a range inside the ranking, every returned ranking has the
\* input's entries at the positions outside the range and the input's
\* entries of the range, in some order, inside it; an empty range gives an
\* empty list.
C14_RestLeftFixed ==
    (analyst = "createNDistinctPermutations" /\ pc = "done" /\ RangeInside) =>
        /\ \A p \in permu :
              /\ Len(p) = Len(g_input)
              /\ \A k \in Outside(permuteRange, Len(g_input)) : p[k] = g_input[k]
              /\ {p[k] : k \in Inside(permuteRange, Len(g_input))}
                    = {g_input[k] : k \in Inside(permuteRange, Len(g_input))}
        /\ RangeLen(permuteRange) = 0 => permu = {}

\* A call on a proper part of the ranking that returned both orders of it.
C14_Witness ==
    /\ LoopDone
    /\ permuteRange = <<1, 3>>
    /\ Returned = 2
    /\ \E p \in permu : p # g_input


----------------------------------------------------------------------------
(* The outcome                                                             *)

\* The matrix with columns (B,C,A), (A,C,B), (C,B,A), (C,B,A).
ExampleMatrix ==
    [v \in 0 .. 3 |-> << <<2, 3, 1>>, <<1, 3, 2>>, <<3, 2, 1>>, <<3, 2, 1>> >>[v + 1]]

\* C15: the outcome handed to the happiness measure lists every candidate
\* of the matrix once, those with score 0 too, a higher score first and of
\* two equal scores the smaller identifier first; for the example matrix
\* under plurality the scores are A = 1, B = 1, C = 2 and the order C, A, B.
C15_OutcomeTotalOrder ==
    (analyst = "outcome" /\ pc = "done") =>
        /\ Len(outcome_keys) = m
        /\ Range(outcome_keys) = Candidates
        /\ \A p, q \in 1 .. m :
              p < q =>
                 \/ outcome_values[outcome_keys[p]] > outcome_values[outcome_keys[q]]
                 \/ /\ outcome_values[outcome_keys[p]] = outcome_values[outcome_keys[q]]
                    /\ outcome_keys[p] < outcome_keys[q]
        /\ (given = ExampleMatrix /\ voting_scheme = "plurality_voting") =>
              /\ outcome_values = (1 :> 1 @@ 2 :> 1 @@ 3 :> 2)
              /\ outcome_keys = <<3, 1, 2>>

\* The example's outcome has been computed.
C15_Witness ==
    /\ analyst = "outcome" /\ pc = "done"
    /\ given = ExampleMatrix
    /\ voting_scheme = "plurality_voting"


----------------------------------------------------------------------------
(* Matrices that are not well-formed                                       *)

\* C16: analyze of a matrix with a column that is not a permutation of the
\* candidates ends with InvalidInputError before any alternative is tried,
\* and no happiness levels, options or risk come out of it.
C16_MalformedRejected ==
    (analyst = "BTVA" /\ ~WellFormed(given) /\ pc # "start") =>
        /\ pc = "error"
        /\ error = "InvalidInputError"
        /\ last = NothingTried
        /\ individual_happiness = <<>>
        /\ strategic_options = <<>>
        /\ risk = <<>>


----------------------------------------------------------------------------
(* Preference reconstruction                                               *)

\* Every column holds every candidate once.
PermutationColumns(matrix) == \A v \in DOMAIN matrix : matrix[v] \in Rankings

\* The cells at which two matrices differ.
Changed(a, b) == {x \in (DOMAIN a) \X (1 .. m) : a[x[1]][x[2]] # b[x[1]][x[2]]}

\* preference_reconstruct is running or has just returned.
InChain == analyst = "ATVA3" /\ pc \in {"warmup", "phases", "returned"}

\* C17: while the chain runs, the current matrix, the best matrix and every
\* matrix a move can propose have a permutation of the candidates in every
\* column, a proposal differs from the current matrix in two cells of one
\* column, which it swaps, or in none; every array the reconstruction hands
\* back and every matrix analyze goes on with is valid.
C17_ChainKeepsPermutations ==
    /\ InChain =>
          /\ PermutationColumns(current_preference)
          /\ best_preference # <<>> => PermutationColumns(best_preference[1])
          /\ \A move \in Moves :
                LET new_preference ==
                        SwapRows(current_preference, move[1], move[2], move[3])
                    cells == Changed(current_preference, new_preference)
                IN  /\ PermutationColumns(new_preference)
                    /\ cells \subseteq {<<move[1], move[2]>>, <<move[1], move[3]>>}
                    /\ new_preference[move[1]][move[2]] = current_preference[move[1]][move[3]]
                    /\ new_preference[move[1]][move[3]] = current_preference[move[1]][move[2]]
    /\ (analyst = "ATVA3" /\ pc = "returned" /\ reconstruct_preference.type = "ndarray") =>
          IsValidPreferenceMatrix(reconstruct_preference)
    /\ (analyst = "ATVA3" /\ pc = "done") =>
          /\ IsValidPreferenceMatrix(reconstruct_preference)
          /\ PermutationColumns(reconstruct_preference.value)

\* analyze went on with a reconstruction it got at the second call or later,
\* which is not the caller's matrix.
C17_Witness ==
    /\ analyst = "ATVA3" /\ pc = "done"
    /\ reconstruct_calls >= 2
    /\ reconstruct_preference.value # given

\* C18: what preference_reconstruct returns is a matrix whose score is at
\* least the score of every matrix the chain has been at, the initial one
\* included.
C18_ReturnsBestVisited ==
    (analyst = "ATVA3" /\ pc = "returned") =>
        /\ reconstruct_preference.type = "ndarray"
        /\ reconstruct_match(leaderboard, reconstruct_preference.value) >= visited_score

\* C19: analyze calls preference_reconstruct at most four times, the first
\* call and three retries, and after a fourth value that is not a valid
\* matrix it returns the failure result.
C19_AtMostThreeRetries ==
    analyst = "ATVA3" =>
        /\ reconstruct_calls <= 4
        /\ (pc = "while" /\ reconstruct_calls = 4) =>
              IsValidPreferenceMatrix(reconstruct_preference)

\* C26: while the phases run, a change of phase is an advance by exactly
\* one, so phase 1 is followed by phase 2 and phase 2 by phase 3.
C26_PhasesInOrder ==
    [][(analyst = "ATVA3" /\ pc = "phases" /\ pc' = "phases" /\ phase' # phase)
          => phase' = phase + 1]_vars

\* preference_reconstruct is in one of its loops.
ChainRunning == analyst = "ATVA3" /\ pc \in {"warmup", "phases"}

\* C27: every call of preference_reconstruct returns; it makes window_size
\* proposals in its first loop, all of them before the phases begin, and at
\* most 3 * num_simulations more, so never more than
\* window_size + 3 * num_simulations.
C27_BoundedAndTerminates ==
    /\ [](analyst = "ATVA3" =>
            /\ proposals <= sim_params.window_size + 3 * sim_params.num_simulations
            /\ pc = "warmup" => proposals = step /\ proposals <= sim_params.window_size
            /\ pc \in {"phases", "returned"} => proposals >= sim_params.window_size
            /\ pc = "phases" =>
                   proposals <= sim_params.window_size
                                + (phase - 1) * sim_params.num_simulations + step)
    /\ (ChainRunning ~> (analyst = "ATVA3" /\ pc = "returned"))

\* A call has returned after its first loop and three full phases.
C27_Witness ==
    /\ analyst = "ATVA3" /\ pc = "returned"
    /\ proposals = sim_params.window_size + 3 * sim_params.num_simulations

\* The per-candidate scores of pref are those of the true matrix.
SameScores(pref) ==
    CallVotingScheme(voting_scheme, pref) = CallVotingScheme(voting_scheme, given)

\* Two candidates of the true matrix have the same score.
TrueScoresTie ==
    \E c, d \in Candidates :
        /\ c # d
        /\ CallVotingScheme(voting_scheme, given)[c] = CallVotingScheme(voting_scheme, given)[d]

\* C28: reconstruct_match orders candidates of equal score as the leaderboard
\* does: during a call of preference_reconstruct the true matrix, every
\* matrix with the scores of the true matrix, and the chain's current matrix
\* whenever it has those scores, have the perfect score m.
C28_TieBreakAgrees ==
    (analyst = "ATVA3" /\ pc \in {"warmup", "phases", "returned"}) =>
        /\ reconstruct_match(leaderboard, given) = m
        /\ \A pref \in InitialPreferences(leaderboard) :
               SameScores(pref) => reconstruct_match(leaderboard, pref) = m
        /\ SameScores(current_preference) => current_score = m

C28_Witness ==
    /\ analyst = "ATVA3" /\ pc = "phases"
    /\ proposals > 0
    /\ TrueScoresTie
    /\ current_preference # given
    /\ SameScores(current_preference)
    /\ current_score = m


----------------------------------------------------------------------------
(* Calls on one object                                                     *)

\* The pairs a new ATVA2 object records for voter v in its first
\* _single_step_analyse of matrix pref.
FreshOptions(pref, v) ==
    {<<option, HappinessUnder(pref[v], WithBallot(pref, v, option))>> :
        option \in Range(defaultStrategyGenerator(pref[0]))}

\* C20: in every call of analyze the rankings tried are those the generator
\* gives for that call's own matrix, and what the call records for the
\* voters is what a new object records for that matrix.
C20_CallsIndependent ==
    (analyst = "ATVA2" /\ pc # "start") =>
        /\ all_options = defaultStrategyGenerator(given[0])
        /\ (pc = "done") =>
              \A v \in Voters : strategic_options[v + 1] = FreshOptions(given, v)

----------------------------------------------------------------------------
(* Risk measures                                                           *)

\* The voters gone through whose option set is non-empty and holds nothing
\* above their happiness level.
NothingToGain ==
    {v \in 0 .. (i - 1) :
        /\ strategic_options[v + 1] # {}
        /\ \A o \in strategic_options[v + 1] : o[2] <= individual_happiness[v]}

\* C21: a risk measure never raises, and a voter whose non-empty option set
\* holds no strictly improving option contributes 0 to it.
C21_NoGainNoRisk ==
    (analyst = "risk_measure" /\ pc # "start") =>
        /\ error = None
        /\ pc # "error"
        /\ risk_measure = "FlipRewardRisk" =>
               \A v \in NothingToGain : individual_risks[v + 2][1] = 0
        /\ risk_measure \in {"JointFlipRewardRisk", "WinnerChangeRisk"} =>
               \A v \in NothingToGain : individual_risks[v + 1][1] = 0
        /\ risk_measure = "probStrategicVoting" =>
               count = i - Cardinality(NothingToGain)

----------------------------------------------------------------------------
(* Happiness measures                                                      *)

\* A weight argument that is a list shorter than the ranking.
Shorter(arg, n) == arg # <<>> /\ Len(arg[1]) < n

\* The argument with weight 0 at the positions it leaves out.
ZeroPadded(arg, n) ==
    IF Shorter(arg, n) THEN <<PadZeros(arg[1], n - Len(arg[1]))>> ELSE arg

\* What the measure does when called with the zero-padded arguments: the
\* exception and the value.
WithFullWeights ==
    LET n == Len(w_preferences)
        pw == PaddedPreferenceWeights(happiness_measure, n,
                                      ZeroPadded(w_preferenceWeights, n),
                                      ZeroPadded(w_distanceWeights, n))
        dw == PaddedDistanceWeights(happiness_measure, n, ZeroPadded(w_distanceWeights, n))
    IN  [error |-> ScoreError(happiness_measure, w_preferences, w_outcome, pw, dw),
         value |-> Score(happiness_measure, w_preferences, w_outcome, pw, dw)]

MeasureReturned == analyst = "happiness_measure" /\ pc \in {"done", "error"}

\* C22: called with a preference-weight or distance-weight list shorter than
\* the ranking, NDCG and KendallTau do not raise IndexError and behave as
\* with the list padded by zero weights: the same score.
C22_ShortWeightsPadded ==
    (/\ MeasureReturned
     /\ happiness_measure \in {"NDCG", "KendallTau"}
     /\ \/ Shorter(w_preferenceWeights, Len(w_preferences))
        \/ Shorter(w_distanceWeights, Len(w_preferences)))
    => /\ error # "IndexError"
       /\ error = WithFullWeights.error
       /\ error = None => RatEq(result, WithFullWeights.value)

\* The outcome order with the candidate at position k moved one place up.
MovedUp(order, k) ==
    [j \in DOMAIN order |->
        IF j = k - 1 THEN order[k] ELSE IF j = k THEN order[k - 1] ELSE order[j]]

DefaultWeights == w_preferenceWeights = <<>> /\ w_distanceWeights = <<>>

\* C23: with default weights, KendallTau and get_happiness do not decrease
\* when the voter's most-preferred candidate swaps places with the candidate
\* immediately above it in the outcome.
C23_Monotonic ==
    (/\ analyst = "happiness_measure" /\ pc = "done"
     /\ happiness_measure \in {"KendallTau", "get_happiness"}
     /\ DefaultWeights
     /\ IndexOf(w_outcome, w_preferences[1]) > 1)
    => LET O2 == MovedUp(w_outcome, IndexOf(w_outcome, w_preferences[1]))
           after == Score(happiness_measure, w_preferences, O2,
                          weights.preferenceWeights, weights.distanceWeights)
       IN  after[1] * result[2] >= result[1] * after[2]

\* list(reversed(pref))
Reversed(pref) == [k \in DOMAIN pref |-> pref[Len(pref) + 1 - k]]

\* C25: NDCG with default weights of a ranking of n >= 2 candidates against
\* the exactly reversed outcome is strictly between 0 and 1.
C25_ReversedStrictlyBetween ==
    (/\ MeasureReturned
     /\ happiness_measure = "NDCG"
     /\ DefaultWeights
     /\ w_outcome = Reversed(w_preferences))
    => /\ pc = "done"
       /\ 0 < result[1]
       /\ result[1] < result[2]

----------------------------------------------------------------------------
(* Single-voter search and coalition search                                *)

\* No alternative ranking of voter 0 alone makes voter 0 strictly happier,
\* but some pair of alternatives of voters 0 and 1 makes both of them so.
OnlyTogether ==
    /\ \A r \in Range(Alternatives(0)) : ~AllImprove(<<0>>, <<r>>)
    /\ \E r0 \in Range(Alternatives(0)), r1 \in Range(Alternatives(1)) :
           AllImprove(<<0, 1>>, <<r0, r1>>)

\* C24: in such an election BTVA returns the empty option set for voter 0,
\* and ATVA1 with maxCollusionSize = 2 returns, in either search mode, with
\* at least one accepted joint option of the coalition (0, 1).
C24_CoalitionFindsWhatSingleMisses ==
    (/\ pc \in {"done", "error"}
     /\ \/ analyst = "BTVA"
        \/ analyst = "ATVA1" /\ maxCollusionSize = 2
     /\ OnlyTogether)
    => /\ pc = "done"
       /\ analyst = "BTVA" => strategic_options[1] = {}
       /\ analyst = "ATVA1" =>
              \E e \in DOMAIN collusion_options : collusion_options[e][1] = <<0, 1>>

\* The rankings BTVA's single-voter search evaluates for voter v with a
\* happiness strictly above voter v's baseline.
StrictlyImproving(v) ==
    {o[1] : o \in {x \in EveryOption(given, v) : x[2] > Baseline(given)[v]}}

\* The rankings of the recorded collusions of the coalition (v,).
RecordedFor(v) ==
    {collusion_options[e][2][1] :
        e \in {x \in DOMAIN collusion_options : collusion_options[x][1] = <<v>>}}

----------------------------------------------------------------------------
(* The coalition search over sampled alternatives                          *)

\* C30: a call of ATVA1.analyze whose generator is createNDistinctPermutations
\* does not end in an exception, whatever lists the generator has returned.
C30_SampledSearchCompletes ==
    (analyst = "ATVA1" /\ strategyGenerator = "createNDistinctPermutations")
    => pc # "error"

============================================================================
